---- MODULE Spec2Model ----
(***************************************************************************)
(* A model of the core of a dark-pool node: the darknode Router (per-peer  *)
(* compute arcs), the stream layer (Streamer, StreamRecycler and the mock  *)
(* transports of the stream tests) and the order matching engine (Ome).    *)
(* The three subsystems share no state; each has its own specification.    *)
(***************************************************************************)
EXTENDS Integers, Sequences, FiniteSets, TLC

(***************************************************************************)
(* Bounds of the model.                                                    *)
(***************************************************************************)
\* Number of Router.Compute calls (one goroutine each).
MaxCallers == 2
\* maxConnections handed to NewRouter: the subscriber cap of every Splitter.
MaxConnections == 2
\* Number of Open calls made on the stream recyclers (one context each).
MaxHolders == 3
\* Number of Computations the Ranker has to give (one buy order paired with
\* that many sell orders).
MaxComs == 3
\* Length of the buffers of syncRanker and syncOrderFragmentBacklog: stands
\* for the 128 slots of the source, scaled to the number of Computations.
BufferSize == 2
\* The clock of the model stops here.
MaxTime == 2
\* Number of Computations the Ranker gives where the whole pipeline runs.
MaxPipelineComs == 2
\* Number of callers of Router.OrderFragments (sinks of a Splitter).
MaxSubscribers == 3
\* Number of Router.OnOpenOrder calls.
MaxOpenOrders == 2
\* Number of messages a source of a Splitter carries.
MaxMessages == 2
\* Number of sinks given to the Splitters of an arc.
MaxSinks == 3
\* Number of StreamService.Connect calls and of StreamService.Listen calls.
MaxConnects == 2
MaxListens == 2
\* Number of goroutines that use one safeStream.
MaxStreamUsers == 3
\* Number of Broadcast calls, of messages the producer of each call has, and
\* of listeners of a Broadcaster.
MaxBroadcasts == 2
MaxProduced == 1
MaxListeners == 2
\* Number of buy orders and of sell orders the orderbook gives the Ranker,
\* and the largest Priority of an order.
MaxRankBuys == 2
MaxRankSells == 2
MaxPriority == 2
\* The bytes of an order.ID run over 0..MaxByte.
MaxByte == 2
\* Number of goroutines that call into the default logger and number of
\* Loggers handed to SetDefaultLogger.
MaxLogCalls == 3
MaxLoggers == 2
\* Number of Compute calls made for the peer of one arc.
MaxComputes == 2
\* Number of Proposals sent to ProcessProposal and the largest
\* validator.Threshold().
MaxProposals == 2
MaxThreshold == 1
\* Number of calls made on the methods of the WebSocketPlugin.
MaxPluginCalls == 2
\* Number of changes in a changeset of the Orderbook.
MaxChanges == 2
\* Number of Computations the Confirmer puts on its output channel.
MaxConfirmations == 2
\* Number of errors the Orderbook and the Confirmer report.
MaxErrors == 2
\* Number of OnChangeEpoch calls.
MaxEpochs == 2

(***************************************************************************)
(* Identities.  An identity.Address is a byte string of fixed length; the  *)
(* model uses two-byte addresses.  Byte order is not the order of the last *)
(* byte nor of the byte sum, so a wrong comparison shows.                  *)
(***************************************************************************)
Addrs == {<<0, 1>>, <<0, 2>>, <<1, 0>>}

\* bytes.Compare: -1, 0 or +1 by the first byte that differs, the shorter
\* string first when one is a prefix of the other.
RECURSIVE BytesCompare(_, _)
BytesCompare(a, b) ==
    IF a = <<>> /\ b = <<>> THEN 0
    ELSE IF a = <<>> THEN -1
    ELSE IF b = <<>> THEN 1
    ELSE IF Head(a) < Head(b) THEN -1
    ELSE IF Head(a) > Head(b) THEN 1
    ELSE BytesCompare(Tail(a), Tail(b))

\* A tiebreak with the roles exchanged: the larger address dials.
DialsWhenLarger(self, addr) == BytesCompare(addr, self) < 0

\* A tiebreak that also dials a peer of equal address.
DialsWhenNotLarger(self, addr) == BytesCompare(self, addr) <= 0

\* The tiebreak of setupCompute: the router dials addr when its own address
\* compares below addr.
Dials(self, addr) == BytesCompare(self, addr) < 0

\* rpc.MarshalMultiAddress(&router.multiAddress): the greeting of a dialer.
Greeting(self) == [kind |-> "multiAddress", from |-> self]

\* A computation a caller forwards.
Computation(c) == [kind |-> "computation", from |-> c]

Callers == 1..MaxCallers
NoCaller == 0

\* The calls of Router.OrderFragments (each makes one sink) and the calls of
\* Router.OnOpenOrder (each brings one fragment).
Sinks == 1..MaxSubscribers
OpenOrders == 1..MaxOpenOrders

VARIABLES
    \* ---- Router ----
    address,            \* router.address
    mu,                 \* router.mu: NoCaller or the caller that holds it
    computeSenders,     \* router.computeSenders: addr -> sender channel
    computeReceivers,   \* router.computeReceivers: addr -> splitter
    computeErrs,        \* router.computeErrs: addr -> splitter
    computeArcs,        \* router.computeArcs: addr -> int
    chans,              \* every sender channel made by setupCompute
    recvSubs,           \* subscribers of each receiver splitter
    errSubs,            \* subscribers of each error splitter
    pc,                 \* position of each Compute goroutine
    callAddr,           \* addr argument of each Compute call
    sender,             \* the local variable sender of setupCompute
    done,               \* done channel of each call is closed
    crashed,
    orderFragmentSubs,  \* orderFragmentSplitter: the subscribed sinks
    ofPc,               \* OrderFragments: position of the goroutine of each call
    ofDone,             \* OrderFragments: the done channel of each call is closed
    ofErrs,             \* OrderFragments: what the errs channel of each call holds
    ofReceived,         \* fragments received on orderFragmentReceiver of each call
    openOrderPc,        \* OnOpenOrder: position of each call
    broadcaster,        \* Broadcaster, its Broadcast calls and its listeners
    spSubs,             \* Splitter: the sinks subscribed
    spTaken,            \* Splitter: number of messages taken from its source
    spOffer,            \* Splitter: what became of the message taken last, for each sink
    srcClosed,          \* the source of the Splitter is closed
    spClosed,           \* the Splitter has seen its source closed
    sinkReady,          \* the reader of the sink is at its receive
    sinkClosed,         \* the sink is closed
    subLog,             \* the Subscribe calls made: Splitter closed or not, error
            \* the process died (fatal error or panic)
    \* ---- Streamer, StreamRecycler and the mock transports ----
    streamNodes,        \* the addresses of the two nodes that open streams
    hpc,                \* position of each holder (an Open call and its ctx)
    hNode,              \* the node each holder opens on
    recStreams,         \* recycler: <<node, peer>> -> [refs, ctx]
    ctxCloses,          \* the contexts handed to the inner Streamer: times closed
    clientStreams,      \* mockClient.streams of each node
    clientCounter,      \* mockClient.streamsCounter of each node
    serverStreams,      \* mockServer.streams of each node
    serverCounter,      \* mockServer.streamsCounter of each node
    innerOpens,         \* Open calls made on the Streamer of each node
    connsStream,        \* StreamService: the channel of each address, 0 for none
    svcChans,           \* StreamService: what each channel made by setupConn holds
    connPc,             \* Connect: position of each call
    connMsg,            \* Connect: the first message of the stream
    connAddr,           \* Connect: the address verifyStreamAddress returned
    connChan,           \* Connect: the local variable streams
    connErr,            \* Connect: what the call returned
    streamDone,         \* safeStream.done of the stream of each call is closed
    listenPc,           \* Listen: position of each call
    listenAddr,         \* Listen: the addr argument
    listenChan,         \* Listen: the local variable streams
    listenGot,          \* Listen: the stream the call returned, 0 for none
    sendMu,             \* safeStream.sendMu: the goroutine that holds it, 0 for none
    recvMu,             \* safeStream.recvMu: the goroutine that holds it, 0 for none
    ssPc,               \* safeStream: position of each goroutine
    ssDone,             \* safeStream.done is closed
    \* ---- Ome ----
    now,                \* time.Now(), in minutes
    xi,                 \* ome.xi: the current cal.Epoch
    xiMu,               \* ome.xiMu is held for writing
    smpcNetworks,       \* smpcer: epoch hash -> darknodes it is connected to
    changePc,           \* position of the OnChangeEpoch call
    changeArg,          \* argument of the OnChangeEpoch call
    epochCalls,         \* OnChangeEpoch calls started
    returnedHash,       \* hash of the last OnChangeEpoch call that returned
    emitted,            \* Ranker: the Computations already given out
    stored,             \* Storer: the orders whose fragment it has
    computationBacklog, \* ome.computationBacklog: ID -> Computation
    computationBacklogMu, \* the worker holding ome.computationBacklogMu
    drainPc,            \* ranker worker: position in syncRanker
    drainBuffer,        \* syncRanker: buffer[:n]
    drainI,             \* syncRanker: i
    drainXi,            \* syncRanker: the local xi
    sweepPc,            \* backlog worker: position
    sweepBuffer,        \* syncOrderFragmentBacklog: buffer[:bufferN]
    sweepI,             \* syncOrderFragmentBacklog: i
    sweepXi,            \* backlog worker: the local xi
    sweepStart,         \* backlog and time when the running sweep started
    resolving,          \* Matcher: the Resolve calls that have not finished
    matches,            \* the matches channel
    confirmations,      \* the output channel of the Confirmer
    insertedAt,         \* when syncRanker put each Computation in the backlog
    resolves,           \* every Matcher.Resolve call made
    handed,             \* the States each Computation was handed on with
    omeDone,            \* the done channel given to Run is closed
    workerPc,           \* position of each worker goroutine of Run
    tickPending,        \* ticker.C of the backlog worker holds a tick
    errs,               \* number of errors in the errs channel of Run
    errsClosed,         \* the errs channel is closed
    errorsMade,         \* errors reported by the Orderbook and the Confirmer
    \* ---- Ranker ----
    ranker,             \* the orders inserted, their pairings, the last call
    \* ---- Computation ----
    newComputation,     \* the NewComputation calls made and their results
    \* ---- logger ----
    logger,             \* defaultLoggerMu, DefaultLogger and the callers
    \* ---- the channels of one compute arc ----
    compute,            \* the arc of one peer, its Splitters, the calls
    \* ---- syncConfirmerToSettler ----
    settler,            \* the channels of the Confirmer, the worker, Settle
    \* ---- syncOrderbookToRanker ----
    orderbook,          \* the changeset, the Ranker calls, the error
    \* ---- hyper.ProcessProposal ----
    hyper,              \* the worker of ProcessProposal and its channels
    \* ---- logger.WebSocketPlugin ----
    plugin              \* the guard, the four channels and the callers

fanVars == <<orderFragmentSubs, ofPc, ofDone, ofErrs, ofReceived, openOrderPc>>

splitVars == <<spSubs, spTaken, spOffer, srcClosed, spClosed, sinkReady,
               sinkClosed, subLog>>

bcVars == <<broadcaster>>

bcClosed == broadcaster.closed      \* Close has been called
bcPc == broadcaster.pc              \* Broadcast: position of each call
bcTaken == broadcaster.taken        \* Broadcast: messages the call took from ch
bcPending == broadcaster.pending    \* Broadcast: listeners still to be offered
chClosed == broadcaster.chClosed    \* the producer of the call has closed ch
lsPc == broadcaster.lsPc            \* listener: position of its loop
lsGot == broadcaster.lsGot          \* listener: messages received, counted
                                    \* while none was dropped for it
lsDropped == broadcaster.lsDropped  \* listener: a message was dropped for it

\* The variables of the packages beside the Router, the streams and the OME.
rankVars == <<ranker>>

rkBuys == ranker.buys        \* buy orders inserted: order -> Priority, 0 for none
rkSells == ranker.sells      \* sell orders inserted: order -> Priority, 0 for none
rkPending == ranker.pending  \* pairs of inserted orders not yet given out
rkEmitted == ranker.emitted  \* pairs given out whose orders are both inserted
rkN == ranker.n              \* len(buf) of the last Computations call, 0 for none
rkOut == ranker.out          \* buf[:n] after the last Computations call

comVars == <<newComputation>>

ncArgs == newComputation.args  \* NewComputation: the arguments <<buy, sell>>
ncCom == newComputation.com    \* NewComputation(buy, sell)
ncSwap == newComputation.swap  \* NewComputation(sell, buy)

logVars == <<logger>>

lgMu == logger.mu            \* defaultLoggerMu: the goroutine that holds it
lgDefault == logger.default  \* DefaultLogger
lgStarted == logger.started  \* the Loggers whose plugins run
lgPc == logger.pc            \* position of each goroutine
lgOp == logger.op            \* the call each goroutine makes
lgHandled == logger.handled  \* the Logger that handled the call

cmpVars == <<compute>>

cpCap == compute.cap              \* router.maxConnections
cpPresent == compute.present      \* the maps have an entry for the peer
cpArcs == compute.arcs            \* router.computeArcs[addr]
cpSender == compute.sender        \* times the last sender made was closed
cpSpClosed == compute.spClosed    \* the Splitter has closed its sinks
cpSubs == compute.subs            \* the calls subscribed to each Splitter
cpPc == compute.pc                \* position of the goroutine of each call
cpDone == compute.done            \* done of each call is closed
cpCloses == compute.closes        \* times computationReceiver, errs closed
cpPanic == compute.panic          \* the panic that ended the process

stlVars == <<settler>>

stDone == settler.done            \* done is closed
stHash == settler.hash            \* ome.xi.Hash
stOffer == settler.offer          \* the Computation the Confirmer is sending
stMade == settler.made            \* Computations the Confirmer has sent
stErrOffer == settler.errOffer    \* the Confirmer is sending an error
stErrsMade == settler.errsMade    \* errors the Confirmer has sent
stClosed == settler.closed        \* the channels the Confirmer has closed
stPc == settler.pc                \* position of syncConfirmerToSettler
stCom == settler.com              \* the local variable confirmation
stXi == settler.xi                \* the local variable xi
stSeen == settler.seen            \* the hashes current since the receive
stCalls == settler.calls          \* the Settle calls made
stErrs == settler.errs            \* errors in the errs channel of Run
stSent == settler.sent            \* errors sent on errs

obVars == <<orderbook>>

obPc == orderbook.pc                \* position of syncOrderbookToRanker
obChangeset == orderbook.changeset  \* what orderbook.Sync returned
obI == orderbook.i                  \* index of the range over the changeset
obCalls == orderbook.calls          \* the calls made on the Ranker
obFailed == orderbook.failed        \* orderbook.Sync returned an error
obDone == orderbook.done            \* done is closed
obErrs == orderbook.errs            \* errors sent on errs

hypVars == <<hyper>>

hyPc == hyper.pc                \* position of the goroutine
hyThreshold == hyper.threshold  \* validator.Threshold()
hyCtxDone == hyper.ctxDone      \* ctx is cancelled
hyInput == hyper.input          \* the Proposal waiting on proposalChIn
hyMade == hyper.made            \* Proposals sent on proposalChIn
hyInClosed == hyper.inClosed    \* proposalChIn is closed
hyReceived == hyper.received    \* the Proposals the goroutine received
hyDropped == hyper.dropped      \* Proposals whose Fault was given up
hyCh == hyper.ch                \* what prepareCh, faultCh and errCh hold
hySent == hyper.sent            \* everything sent on each of the three
hyClosed == hyper.closed        \* the three channels are closed

wsVars == <<plugin>>

wsGuard == plugin.guard                \* GuardedObject: the call inside it
wsCh == plugin.ch                      \* what info, error, warn, usage hold
wsLast == plugin.last                  \* the last event sent on each
wsRegistration == plugin.registration  \* plugin.registration
wsPc == plugin.pc                      \* position of each call
wsOp == plugin.op                      \* method and tag of each call
wsEvents == plugin.events              \* events made so far

lateVars == <<cmpVars, stlVars, obVars, hypVars, wsVars>>

otherVars == <<bcVars, rankVars, comVars, logVars, lateVars>>

\* The variables of the objects modelled before the arc channels.
baseVars == <<bcVars, rankVars, comVars, logVars>>

routerVars == <<address, mu, computeSenders, computeReceivers, computeErrs,
                computeArcs, chans, recvSubs, errSubs, pc, callAddr, sender,
                done, crashed, fanVars, splitVars, otherVars>>

svcVars == <<connsStream, svcChans, connPc, connMsg, connAddr, connChan,
             connErr, streamDone, listenPc, listenAddr, listenChan, listenGot>>

safeVars == <<sendMu, recvMu, ssPc, ssDone>>

streamVars == <<streamNodes, hpc, hNode, recStreams, ctxCloses, clientStreams,
                clientCounter, serverStreams, serverCounter, innerOpens,
                svcVars, safeVars>>

omeVars == <<now, xi, xiMu, smpcNetworks, changePc, changeArg, epochCalls,
             returnedHash, emitted, stored, computationBacklog,
             computationBacklogMu, drainPc, drainBuffer, drainI, drainXi,
             sweepPc, sweepBuffer, sweepI, sweepXi, sweepStart, resolving,
             matches, confirmations, insertedAt, resolves, handed,
             omeDone, workerPc, tickPending, errs, errsClosed, errorsMade>>

runVars == <<omeDone, workerPc, tickPending, errs, errsClosed, errorsMade>>

vars == <<routerVars, streamVars, omeVars>>

(***************************************************************************)
(* Router                                                                  *)
(***************************************************************************)
NoChan == 0

\* NewBroadcaster, before any Broadcast or Listen call.
InitBroadcaster ==
    broadcaster =
        [closed |-> FALSE,
         pc |-> [b \in 1..MaxBroadcasts |-> "idle"],
         taken |-> [b \in 1..MaxBroadcasts |-> 0],
         pending |-> [b \in 1..MaxBroadcasts |-> {}],
         chClosed |-> [b \in 1..MaxBroadcasts |-> FALSE],
         lsPc |-> [l \in 1..MaxListeners |-> "idle"],
         lsGot |-> [l \in 1..MaxListeners |-> 0],
         lsDropped |-> [l \in 1..MaxListeners |-> FALSE]]

\* The Ranker before any change of the orderbook reaches it.
InitRanker ==
    ranker = [buys |-> [o \in 1..MaxRankBuys |-> 0],
              sells |-> [o \in 1..MaxRankSells |-> 0],
              pending |-> {},
              emitted |-> {},
              n |-> 0,
              out |-> <<>>]

\* No NewComputation call has been made.
NoArgs == <<>>
NoComputation == <<>>
InitComputation ==
    newComputation =
        [args |-> NoArgs, com |-> NoComputation, swap |-> NoComputation]

\* The package variables of logger: the DefaultLogger made at start-up is
\* Logger 0, it is started, and defaultLoggerMu is free.
InitLogger ==
    logger = [mu |-> 0,
              default |-> 0,
              started |-> {0},
              pc |-> [t \in 1..MaxLogCalls |-> "idle"],
              op |-> [t \in 1..MaxLogCalls |-> [fn |-> "none", logger |-> -1]],
              handled |-> [t \in 1..MaxLogCalls |-> -1]]

\* The two Splitters of an arc, one on the receiver and one on the errs of
\* the transport.
SplitterIds == {"receivers", "errs"}
SplitSinks == 1..MaxSinks

\* The Splitter a sink can be given to: a channel of computations goes to
\* computeReceivers[addr] and a channel of errors to computeErrs[addr].
SinkSplitter(s) == IF s % 2 = 1 THEN "receivers" ELSE "errs"

\* dispatch.NewSplitter(maxConnections) and Split(source), twice: nothing is
\* subscribed, nothing is taken, the sources are open.
InitSplitter ==
    /\ spSubs = [p \in SplitterIds |-> {}]
    /\ spTaken = [p \in SplitterIds |-> 0]
    /\ spOffer = [p \in SplitterIds |-> [s \in SplitSinks |-> "none"]]
    /\ srcClosed = [p \in SplitterIds |-> FALSE]
    /\ spClosed = [p \in SplitterIds |-> FALSE]
    /\ sinkReady = [s \in SplitSinks |-> FALSE]
    /\ sinkClosed = [s \in SplitSinks |-> FALSE]
    /\ subLog = {}

\* The arc of one peer before the first Compute call, in a Router made with
\* maxConnections: no entry in the maps, no call started.
InitCompute(maxConnections) ==
    compute = [cap |-> maxConnections,
               present |-> FALSE,
               arcs |-> 0,
               sender |-> 0,
               spClosed |-> [p \in SplitterIds |-> FALSE],
               subs |-> [p \in SplitterIds |-> {}],
               pc |-> [c \in 1..MaxComputes |-> "idle"],
               done |-> [c \in 1..MaxComputes |-> FALSE],
               closes |-> [c \in 1..MaxComputes |->
                              [p \in SplitterIds |-> 0]],
               panic |-> "none"]

\* syncConfirmerToSettler has called confirmer.Confirm(done, matches) and is
\* at its select; the epoch is the first one.
InitSettler ==
    settler = [done |-> FALSE,
               hash |-> 1,
               offer |-> 0,
               made |-> 0,
               errOffer |-> FALSE,
               errsMade |-> 0,
               closed |-> {},
               pc |-> "select",
               com |-> 0,
               xi |-> 0,
               seen |-> {},
               calls |-> <<>>,
               errs |-> 0,
               sent |-> 0]

\* The orderbook worker is about to call syncOrderbookToRanker.
InitOrderbook ==
    orderbook = [pc |-> "idle",
                 changeset |-> <<>>,
                 i |-> 0,
                 calls |-> <<>>,
                 failed |-> FALSE,
                 done |-> FALSE,
                 errs |-> 0]

\* The channels of ProcessProposal and the Proposal that fills an empty
\* slot.
HyperChannels == {"prepareCh", "faultCh", "errCh"}
NoProposal == [Block |-> 0, Rank |-> 0, Height |-> 0, valid |-> FALSE]

\* Before the call of ProcessProposal.
InitHyper ==
    hyper = [pc |-> "idle",
             threshold |-> 0,
             ctxDone |-> FALSE,
             input |-> NoProposal,
             made |-> 0,
             inClosed |-> FALSE,
             received |-> <<>>,
             dropped |-> 0,
             ch |-> [c \in HyperChannels |-> <<>>],
             sent |-> [c \in HyperChannels |-> <<>>],
             closed |-> FALSE]

\* The four channels of the WebSocketPlugin, named after its methods.
PluginChannels == {"Info", "Error", "Warn", "Usage"}

\* NewWebSocketPlugin: four empty channels with room for one event.
InitPlugin ==
    plugin = [guard |-> 0,
              ch |-> [c \in PluginChannels |-> <<>>],
              last |-> [c \in PluginChannels |-> 0],
              registration |-> 0,
              pc |-> [t \in 1..MaxPluginCalls |-> "idle"],
              op |-> [t \in 1..MaxPluginCalls |->
                         [method |-> "none", register |-> FALSE, event |-> 0]],
              events |-> 0]

\* NewRouter: empty maps, free mutex.
InitRouter ==
    /\ address \in Addrs
    /\ mu = NoCaller
    /\ computeSenders = <<>>
    /\ computeReceivers = <<>>
    /\ computeErrs = <<>>
    /\ computeArcs = [a \in Addrs |-> 0]
    /\ chans = <<>>
    /\ recvSubs = <<>>
    /\ errSubs = <<>>
    /\ pc = [c \in Callers |-> "idle"]
    /\ callAddr = [c \in Callers |-> address]
    /\ sender = [c \in Callers |-> NoChan]
    /\ done = [c \in Callers |-> FALSE]
    /\ crashed = FALSE
    /\ orderFragmentSubs = {}
    /\ ofPc = [s \in Sinks |-> "idle"]
    /\ ofDone = [s \in Sinks |-> FALSE]
    /\ ofErrs = [s \in Sinks |-> "none"]
    /\ ofReceived = [s \in Sinks |-> {}]
    /\ openOrderPc = [k \in OpenOrders |-> "idle"]
    /\ InitSplitter
    /\ InitBroadcaster
    /\ InitRanker
    /\ InitComputation
    /\ InitLogger
    /\ \E maxConnections \in 1..MaxConnections : InitCompute(maxConnections)
    /\ InitSettler
    /\ InitOrderbook
    /\ InitHyper
    /\ InitPlugin

\* The arc of peer p: its entries in the three maps.
ArcPresent(p) ==
    /\ p \in DOMAIN computeSenders
    /\ p \in DOMAIN computeReceivers
    /\ p \in DOMAIN computeErrs
ArcAbsent(p) ==
    /\ p \notin DOMAIN computeSenders
    /\ p \notin DOMAIN computeReceivers
    /\ p \notin DOMAIN computeErrs

\* A map with key k set to v, and with key k deleted.
MapSet(m, k, v) == [x \in DOMAIN m \cup {k} |-> IF x = k THEN v ELSE m[x]]
MapDelete(m, k) == [x \in DOMAIN m \ {k} |-> m[x]]

\* Splitter.Subscribe: refused when the subscriber cap is reached.
Subscribe(subs, id, c) ==
    IF Cardinality(subs[id]) >= MaxConnections THEN subs
    ELSE [subs EXCEPT ![id] = @ \cup {c}]

\* Splitter.Unsubscribe.
Unsubscribe(subs, id, c) == [subs EXCEPT ![id] = @ \ {c}]

\* Callers are interchangeable: call c starts after call c - 1 has.
MayStart(c) == IF c = 1 THEN TRUE ELSE pc[c - 1] # "idle"

\* Router.Compute up to the point where setupCompute has to wait: the
\* goroutine starts, takes router.mu and looks computeReceivers[addr] up.
\* When there is no arc, setupCompute makes the sender and either dials
\* through the client pool or asks the compute service to wait for the peer.
ComputeLock(c, addr) ==
    /\ ~crashed
    /\ pc[c] = "idle"
    /\ MayStart(c)
    /\ mu = NoCaller
    /\ mu' = c
    /\ callAddr' = [callAddr EXCEPT ![c] = addr]
    /\ IF addr \in DOMAIN computeReceivers
       THEN /\ pc' = [pc EXCEPT ![c] = "incr"]
            /\ UNCHANGED <<chans, sender>>
       ELSE LET id == Len(chans) + 1
                role == IF Dials(address, addr) THEN "dial" ELSE "listen"
            IN /\ chans' = Append(chans, [peer |-> addr, role |-> role,
                                          open |-> TRUE,
                                          first |-> "none", greetings |-> 0])
               /\ sender' = [sender EXCEPT ![c] = id]
               /\ pc' = [pc EXCEPT ![c] = IF role = "dial" THEN "greet" ELSE "install"]
    /\ UNCHANGED <<streamVars, omeVars, fanVars, splitVars, otherVars>>
    /\ UNCHANGED <<address, computeSenders, computeReceivers, computeErrs,
                   computeArcs, recvSubs, errSubs, done, crashed>>

\* A message is placed on a sender channel: the channel remembers its first
\* message and how many greetings it has carried.
Placed(ch, kind) ==
    [ch EXCEPT !.first = IF @ = "none" THEN kind ELSE @,
               !.greetings = IF kind = "multiAddress" THEN @ + 1 ELSE @]

\* sender <- &rpc.Computation{MultiAddress: ...}: the send on the unbuffered
\* sender completes when the transport receives it.
SetupGreet(c) ==
    /\ ~crashed
    /\ pc[c] = "greet"
    /\ chans' = [chans EXCEPT ![sender[c]] = Placed(@, Greeting(address).kind)]
    /\ pc' = [pc EXCEPT ![c] = "install"]
    /\ UNCHANGED <<streamVars, omeVars, fanVars, splitVars, otherVars>>
    /\ UNCHANGED <<address, mu, computeSenders, computeReceivers, computeErrs,
                   computeArcs, recvSubs, errSubs, callAddr, sender, done, crashed>>

\* setupCompute, second half: the three map entries and the two splitters.
SetupInstall(c) ==
    /\ ~crashed
    /\ pc[c] = "install"
    /\ computeSenders' = MapSet(computeSenders, callAddr[c], sender[c])
    /\ computeReceivers' = MapSet(computeReceivers, callAddr[c], sender[c])
    /\ computeErrs' = MapSet(computeErrs, callAddr[c], sender[c])
    /\ recvSubs' = MapSet(recvSubs, sender[c], {})
    /\ errSubs' = MapSet(errSubs, sender[c], {})
    /\ sender' = [sender EXCEPT ![c] = NoChan]
    /\ pc' = [pc EXCEPT ![c] = "incr"]
    /\ UNCHANGED <<streamVars, omeVars, fanVars, splitVars, otherVars>>
    /\ UNCHANGED <<address, mu, computeArcs, chans, callAddr, done,
                   crashed>>

\* A Compute that leaves the count as it is.
ArcsAfterJoinStuck(n) == n

\* router.computeArcs[addr]++
ArcsAfterJoin(n) == n + 1

\* computeArcs[addr]++ and router.mu.Unlock().
ComputeJoin(c) ==
    /\ ~crashed
    /\ pc[c] = "incr"
    /\ computeArcs' = [computeArcs EXCEPT ![callAddr[c]] = ArcsAfterJoin(@)]
    /\ mu' = NoCaller
    /\ pc' = [pc EXCEPT ![c] = "subscribe"]
    /\ UNCHANGED <<streamVars, omeVars, fanVars, splitVars, otherVars>>
    /\ UNCHANGED <<address, computeSenders, computeReceivers, computeErrs,
                   chans, recvSubs, errSubs, callAddr, sender, done, crashed>>

\* computeReceivers[addr].Subscribe(...) and computeErrs[addr].Subscribe(...),
\* both map reads made without the mutex.  A missing entry reads as a nil
\* splitter, and the call on it panics.
ComputeSubscribe(c) ==
    /\ ~crashed
    /\ pc[c] = "subscribe"
    /\ IF ArcPresent(callAddr[c])
       THEN /\ recvSubs' = Subscribe(recvSubs, computeReceivers[callAddr[c]], c)
            /\ errSubs' = Subscribe(errSubs, computeErrs[callAddr[c]], c)
            /\ crashed' = FALSE
       ELSE /\ crashed' = TRUE
            /\ UNCHANGED <<recvSubs, errSubs>>
    /\ pc' = [pc EXCEPT ![c] = "loop"]
    /\ UNCHANGED <<streamVars, omeVars, fanVars, splitVars, otherVars>>
    /\ UNCHANGED <<address, mu, computeSenders, computeReceivers, computeErrs,
                   computeArcs, chans, callAddr, sender, done>>

\* The outer select: case <-done.
LoopDone(c) ==
    /\ ~crashed
    /\ pc[c] = "loop"
    /\ done[c]
    /\ pc' = [pc EXCEPT ![c] = "release"]
    /\ UNCHANGED <<streamVars, omeVars, fanVars, splitVars, otherVars>>
    /\ UNCHANGED <<address, mu, computeSenders, computeReceivers, computeErrs,
                   computeArcs, chans, recvSubs, errSubs, callAddr, sender,
                   done, crashed>>

\* The outer select: a computation arrives on computationSender.
LoopRecv(c) ==
    /\ ~crashed
    /\ pc[c] = "loop"
    /\ pc' = [pc EXCEPT ![c] = "forward"]
    /\ UNCHANGED <<streamVars, omeVars, fanVars, splitVars, otherVars>>
    /\ UNCHANGED <<address, mu, computeSenders, computeReceivers, computeErrs,
                   computeArcs, chans, recvSubs, errSubs, callAddr, sender,
                   done, crashed>>

\* The outer select: the caller has closed computationSender, which it may
\* do at any time, and the receive reports it.
LoopClosed(c) ==
    /\ ~crashed
    /\ pc[c] = "loop"
    /\ pc' = [pc EXCEPT ![c] = "release"]
    /\ UNCHANGED <<streamVars, omeVars, fanVars, splitVars, otherVars>>
    /\ UNCHANGED <<address, mu, computeSenders, computeReceivers, computeErrs,
                   computeArcs, chans, recvSubs, errSubs, callAddr, sender,
                   done, crashed>>

\* The inner select: case <-done, the computation is dropped.
ForwardDone(c) ==
    /\ ~crashed
    /\ pc[c] = "forward"
    /\ done[c]
    /\ pc' = [pc EXCEPT ![c] = "loop"]
    /\ UNCHANGED <<streamVars, omeVars, fanVars, splitVars, otherVars>>
    /\ UNCHANGED <<address, mu, computeSenders, computeReceivers, computeErrs,
                   computeArcs, chans, recvSubs, errSubs, callAddr, sender,
                   done, crashed>>

\* The inner select: router.computeSenders[addr] <- computation.  A send on a
\* closed channel panics.
ForwardSend(c) ==
    /\ ~crashed
    /\ pc[c] = "forward"
    /\ callAddr[c] \in DOMAIN computeSenders
    /\ LET id == computeSenders[callAddr[c]]
       IN IF chans[id].open
          THEN /\ chans' = [chans EXCEPT ![id] = Placed(@, Computation(c).kind)]
               /\ crashed' = FALSE
          ELSE /\ chans' = chans
               /\ crashed' = TRUE
    /\ pc' = [pc EXCEPT ![c] = "loop"]
    /\ UNCHANGED <<streamVars, omeVars, fanVars, splitVars, otherVars>>
    /\ UNCHANGED <<address, mu, computeSenders, computeReceivers, computeErrs,
                   computeArcs, recvSubs, errSubs, callAddr, sender, done>>

\* The deferred function, first half: the two Unsubscribe calls.
ReleaseUnsubscribe(c) ==
    /\ ~crashed
    /\ pc[c] = "release"
    /\ IF ArcPresent(callAddr[c])
       THEN /\ recvSubs' = Unsubscribe(recvSubs, computeReceivers[callAddr[c]], c)
            /\ errSubs' = Unsubscribe(errSubs, computeErrs[callAddr[c]], c)
            /\ crashed' = FALSE
       ELSE /\ crashed' = TRUE
            /\ UNCHANGED <<recvSubs, errSubs>>
    /\ pc' = [pc EXCEPT ![c] = "relock"]
    /\ UNCHANGED <<streamVars, omeVars, fanVars, splitVars, otherVars>>
    /\ UNCHANGED <<address, mu, computeSenders, computeReceivers, computeErrs,
                   computeArcs, chans, callAddr, sender, done>>

\* The deferred function: router.mu.Lock().
ReleaseLock(c) ==
    /\ ~crashed
    /\ pc[c] = "relock"
    /\ mu = NoCaller
    /\ mu' = c
    /\ pc' = [pc EXCEPT ![c] = "decr"]
    /\ UNCHANGED <<streamVars, omeVars, fanVars, splitVars, otherVars>>
    /\ UNCHANGED <<address, computeSenders, computeReceivers, computeErrs,
                   computeArcs, chans, recvSubs, errSubs, callAddr, sender,
                   done, crashed>>

\* A release that tears the arc down while one caller is left.
TearsDownAtOne(n) == n <= 1

\* if router.computeArcs[addr]--; router.computeArcs[addr] == 0
TearsDown(n) == n = 0

\* The deferred function: the decrement, teardownCompute when the count is
\* zero (close the sender, delete the three map entries), router.mu.Unlock().
\* Closing a nil or an already closed channel panics.
ReleaseDecrement(c) ==
    /\ ~crashed
    /\ pc[c] = "decr"
    /\ LET a == callAddr[c]
           n == computeArcs[a] - 1
       IN /\ computeArcs' = [computeArcs EXCEPT ![a] = n]
          /\ IF ~TearsDown(n)
             THEN /\ mu' = NoCaller
                  /\ pc' = [pc EXCEPT ![c] = "closing"]
                  /\ UNCHANGED <<chans, crashed, computeSenders,
                                 computeReceivers, computeErrs>>
             ELSE IF a \in DOMAIN computeSenders /\ chans[computeSenders[a]].open
             THEN /\ chans' = [chans EXCEPT ![computeSenders[a]].open = FALSE]
                  /\ computeSenders' = MapDelete(computeSenders, a)
                  /\ computeReceivers' = MapDelete(computeReceivers, a)
                  /\ computeErrs' = MapDelete(computeErrs, a)
                  /\ mu' = NoCaller
                  /\ pc' = [pc EXCEPT ![c] = "closing"]
                  /\ UNCHANGED crashed
             ELSE /\ crashed' = TRUE
                  /\ UNCHANGED <<chans, computeSenders, computeReceivers,
                                 computeErrs, mu, pc>>
    /\ UNCHANGED <<streamVars, omeVars, fanVars, splitVars, otherVars>>
    /\ UNCHANGED <<address, recvSubs, errSubs, callAddr, sender, done>>

\* defer close(errs); defer close(computationReceiver): the goroutine ends.
ComputeReturn(c) ==
    /\ ~crashed
    /\ pc[c] = "closing"
    /\ pc' = [pc EXCEPT ![c] = "returned"]
    /\ UNCHANGED <<streamVars, omeVars, fanVars, splitVars, otherVars>>
    /\ UNCHANGED <<address, mu, computeSenders, computeReceivers, computeErrs,
                   computeArcs, chans, recvSubs, errSubs, callAddr, sender,
                   done, crashed>>

\* The caller closes its done channel.
CloseDone(c) ==
    /\ ~crashed
    /\ pc[c] \in {"loop", "forward"}
    /\ ~done[c]
    /\ done' = [done EXCEPT ![c] = TRUE]
    /\ UNCHANGED <<streamVars, omeVars, fanVars, splitVars, otherVars>>
    /\ UNCHANGED <<address, mu, computeSenders, computeReceivers, computeErrs,
                   computeArcs, chans, recvSubs, errSubs, pc, callAddr, sender, crashed>>

\* The positions at which a goroutine reads the arc maps without router.mu,
\* and those at which the holder of router.mu is about to write them.
ReadsUnlocked(c) == pc[c] \in {"subscribe", "forward", "release"}
WritesLocked(c) == pc[c] = "install" \/ (pc[c] = "decr" /\ computeArcs[callAddr[c]] = 1)

\* A map read that overlaps a map write is a data race; the Go runtime may
\* end the process ("concurrent map read and map write").
MapRace ==
    /\ ~crashed
    /\ \E r, w \in Callers : r # w /\ ReadsUnlocked(r) /\ WritesLocked(w)
    /\ crashed' = TRUE
    /\ UNCHANGED <<streamVars, omeVars, fanVars, splitVars, otherVars>>
    /\ UNCHANGED <<address, mu, computeSenders, computeReceivers, computeErrs,
                   computeArcs, chans, recvSubs, errSubs, pc, callAddr, sender,
                   done>>

NextRouter ==
    \/ \E c \in Callers, a \in Addrs : ComputeLock(c, a)
    \/ \E c \in Callers : SetupGreet(c)
    \/ \E c \in Callers : SetupInstall(c)
    \/ \E c \in Callers : ComputeJoin(c)
    \/ \E c \in Callers : ComputeSubscribe(c)
    \/ \E c \in Callers : LoopDone(c)
    \/ \E c \in Callers : LoopRecv(c)
    \/ \E c \in Callers : LoopClosed(c)
    \/ \E c \in Callers : ForwardDone(c)
    \/ \E c \in Callers : ForwardSend(c)
    \/ \E c \in Callers : ReleaseUnsubscribe(c)
    \/ \E c \in Callers : ReleaseLock(c)
    \/ \E c \in Callers : ReleaseDecrement(c)
    \/ \E c \in Callers : ComputeReturn(c)
    \/ \E c \in Callers : CloseDone(c)
    \/ MapRace

(***************************************************************************)
(* Router: the fan-out of order fragments                                  *)
(***************************************************************************)

\* The variables of the Router that the fan-out of order fragments leaves
\* alone.
arcVars == <<address, mu, computeSenders, computeReceivers, computeErrs,
             computeArcs, chans, recvSubs, errSubs, pc, callAddr, sender,
             done, crashed>>

\* Splitter.Subscribe: the error it returns, "nil" when it accepts the sink.
SubscribeError(subs, closed) ==
    IF closed THEN "ErrClosed"
    ELSE IF Cardinality(subs) >= MaxConnections THEN "ErrTooManySubscribers"
    ELSE "nil"

\* Router.OrderFragments(done) makes the two channels, starts its goroutine
\* and returns.  Calls are made in the order of their numbers.
OrderFragments(s) ==
    /\ ofPc[s] = "idle"
    /\ IF s = 1 THEN TRUE ELSE ofPc[s - 1] # "idle"
    /\ ofPc' = [ofPc EXCEPT ![s] = "subscribe"]
    /\ UNCHANGED <<orderFragmentSubs, ofDone, ofErrs, ofReceived, openOrderPc>>
    /\ UNCHANGED <<arcVars, splitVars, streamVars, omeVars, otherVars>>

\* The goroutine subscribes; on an error it puts the error in errs (which has
\* room for one) and returns, and the deferred calls close both channels.
\* An OrderFragments that takes every Subscribe for a success.
SendsNoSubscribeError(err) == FALSE

\* if err := Subscribe(orderFragmentReceiver); err != nil
SendsSubscribeError(err) == err # "nil"
OrderFragmentsSubscribe(s) ==
    /\ ofPc[s] = "subscribe"
    /\ LET err == SubscribeError(orderFragmentSubs, FALSE)
       IN  IF SendsSubscribeError(err)
           THEN /\ ofErrs' = [ofErrs EXCEPT ![s] = err]
                /\ ofPc' = [ofPc EXCEPT ![s] = "closed"]
                /\ UNCHANGED orderFragmentSubs
           ELSE /\ orderFragmentSubs' = orderFragmentSubs \cup {s}
                /\ ofPc' = [ofPc EXCEPT ![s] = "wait"]
                /\ UNCHANGED ofErrs
    /\ UNCHANGED <<ofDone, ofReceived, openOrderPc>>
    /\ UNCHANGED <<arcVars, splitVars, streamVars, omeVars, otherVars>>

\* The caller closes done.
CloseOrderFragmentsDone(s) ==
    /\ ofPc[s] # "idle"
    /\ ~ofDone[s]
    /\ ofDone' = [ofDone EXCEPT ![s] = TRUE]
    /\ UNCHANGED <<orderFragmentSubs, ofPc, ofErrs, ofReceived, openOrderPc>>
    /\ UNCHANGED <<arcVars, splitVars, streamVars, omeVars, otherVars>>

\* <-done returns: the goroutine unsubscribes and returns, and the deferred
\* calls close both channels.
OrderFragmentsReturn(s) ==
    /\ ofPc[s] = "wait"
    /\ ofDone[s]
    /\ orderFragmentSubs' = orderFragmentSubs \ {s}
    /\ ofPc' = [ofPc EXCEPT ![s] = "closed"]
    /\ UNCHANGED <<ofDone, ofErrs, ofReceived, openOrderPc>>
    /\ UNCHANGED <<arcVars, splitVars, streamVars, omeVars, otherVars>>

\* Router.OnOpenOrder: the call sends the fragment on
\* orderFragmentSplitterCh.  NewRouter makes that channel without a buffer
\* and gives it to nobody: Split is not called on orderFragmentSplitter and
\* nothing receives from the channel, so no step completes the send.
OnOpenOrder(k) ==
    /\ openOrderPc[k] = "idle"
    /\ IF k = 1 THEN TRUE ELSE openOrderPc[k - 1] # "idle"
    /\ openOrderPc' = [openOrderPc EXCEPT ![k] = "sending"]
    /\ UNCHANGED <<orderFragmentSubs, ofPc, ofDone, ofErrs, ofReceived>>
    /\ UNCHANGED <<arcVars, splitVars, streamVars, omeVars, otherVars>>

NextFanout ==
    \/ \E s \in Sinks : OrderFragments(s)
    \/ \E s \in Sinks : OrderFragmentsSubscribe(s)
    \/ \E s \in Sinks : CloseOrderFragmentsDone(s)
    \/ \E s \in Sinks : OrderFragmentsReturn(s)
    \/ \E k \in OpenOrders : OnOpenOrder(k)

(***************************************************************************)
(* Splitter: the fan-out of the receiver and of the errs of an arc         *)
(***************************************************************************)

\* The sinks the Splitter p has still to offer its message to.
spPending(p) == {s \in SplitSinks : spOffer[p][s] = "pending"}

\* Subscribe(sink) on the Splitter p.  A caller gives a sink that is not
\* subscribed and not closed.
SplitterSubscribe(p, s) ==
    /\ p = SinkSplitter(s)
    /\ ~sinkClosed[s]
    /\ s \notin spSubs[p]
    /\ LET err == SubscribeError(spSubs[p], spClosed[p])
       IN  /\ subLog' = subLog \cup {[closed |-> spClosed[p], err |-> err]}
           /\ spSubs' = IF err = "nil" THEN [spSubs EXCEPT ![p] = @ \cup {s}]
                        ELSE spSubs
    /\ UNCHANGED <<spTaken, spOffer, srcClosed, spClosed, sinkReady, sinkClosed>>
    /\ UNCHANGED <<arcVars, fanVars, streamVars, omeVars, otherVars>>

\* Unsubscribe(sink) on the Splitter p.
SplitterUnsubscribe(p, s) ==
    /\ s \in spSubs[p]
    /\ spSubs' = [spSubs EXCEPT ![p] = @ \ {s}]
    /\ UNCHANGED <<spTaken, spOffer, srcClosed, spClosed, sinkReady,
                   sinkClosed, subLog>>
    /\ UNCHANGED <<arcVars, fanVars, streamVars, omeVars, otherVars>>

\* The reader of a sink is at its receive when the offer comes.
SinkReceives(s) ==
    /\ ~sinkReady[s]
    /\ ~sinkClosed[s]
    /\ \E p \in SplitterIds : s \in spPending(p)
    /\ sinkReady' = [sinkReady EXCEPT ![s] = TRUE]
    /\ UNCHANGED <<spSubs, spTaken, spOffer, srcClosed, spClosed, sinkClosed,
                   subLog>>
    /\ UNCHANGED <<arcVars, fanVars, streamVars, omeVars, otherVars>>

\* The Splitter p takes the next message of its source: the message is to be
\* offered to every sink subscribed now.
SplitterTake(p) ==
    /\ ~srcClosed[p]
    /\ spPending(p) = {}
    /\ spTaken[p] < MaxMessages
    /\ spTaken' = [spTaken EXCEPT ![p] = @ + 1]
    /\ spOffer' = [spOffer EXCEPT ![p] =
                       [s \in SplitSinks |->
                           IF s \in spSubs[p] THEN "pending" ELSE "none"]]
    /\ UNCHANGED <<spSubs, srcClosed, spClosed, sinkReady, sinkClosed, subLog>>
    /\ UNCHANGED <<arcVars, fanVars, streamVars, omeVars, otherVars>>

\* A Splitter that gives a message to nobody when one of the sinks is not
\* ready.
DeliversWhenAllReady(s, pending) == \A t \in pending : sinkReady[t]

\* The offer to the sink s succeeds when s is ready, whatever the other
\* sinks are doing.
Delivers(s, pending) == sinkReady[s]

\* The Splitter p offers the message it took to the sink s: the sink receives
\* it, and its reader goes away with it, or the message is dropped for this
\* sink.
SplitterOffer(p, s) ==
    /\ s \in spPending(p)
    /\ IF Delivers(s, spPending(p))
       THEN /\ spOffer' = [spOffer EXCEPT ![p][s] = "got"]
            /\ sinkReady' = [sinkReady EXCEPT ![s] = FALSE]
       ELSE /\ spOffer' = [spOffer EXCEPT ![p][s] = "dropped"]
            /\ UNCHANGED sinkReady
    /\ UNCHANGED <<spSubs, spTaken, srcClosed, spClosed, sinkClosed, subLog>>
    /\ UNCHANGED <<arcVars, fanVars, streamVars, omeVars, otherVars>>

\* The transport closes the source of the Splitter p.
SourceClose(p) ==
    /\ ~srcClosed[p]
    /\ srcClosed' = [srcClosed EXCEPT ![p] = TRUE]
    /\ UNCHANGED <<spSubs, spTaken, spOffer, spClosed, sinkReady, sinkClosed,
                   subLog>>
    /\ UNCHANGED <<arcVars, fanVars, streamVars, omeVars, otherVars>>

\* A Splitter that closes its sinks as soon as its source is closed.
DrainedAlways(p) == TRUE

\* The Splitter comes back to its source when the message it took has been
\* offered to every sink.
Drained(p) == spPending(p) = {}

\* The Splitter p finds its source closed: it closes every sink subscribed
\* and is closed itself.
SplitterClose(p) ==
    /\ srcClosed[p]
    /\ ~spClosed[p]
    /\ Drained(p)
    /\ spClosed' = [spClosed EXCEPT ![p] = TRUE]
    /\ sinkClosed' = [s \in SplitSinks |-> sinkClosed[s] \/ s \in spSubs[p]]
    /\ sinkReady' = [s \in SplitSinks |-> sinkReady[s] /\ s \notin spSubs[p]]
    /\ UNCHANGED <<spSubs, spTaken, spOffer, srcClosed, subLog>>
    /\ UNCHANGED <<arcVars, fanVars, streamVars, omeVars, otherVars>>

NextSplitter ==
    \/ \E p \in SplitterIds, s \in SplitSinks : SplitterSubscribe(p, s)
    \/ \E p \in SplitterIds, s \in SplitSinks : SplitterUnsubscribe(p, s)
    \/ \E s \in SplitSinks : SinkReceives(s)
    \/ \E p \in SplitterIds : SplitterTake(p)
    \/ \E p \in SplitterIds, s \in SplitSinks : SplitterOffer(p, s)
    \/ \E p \in SplitterIds : SourceClose(p)
    \/ \E p \in SplitterIds : SplitterClose(p)

(***************************************************************************)
(* Broadcaster and the goroutines of its tests                             *)
(***************************************************************************)
Broadcasts == 1..MaxBroadcasts
Listeners == 1..MaxListeners

\* What the Broadcaster leaves alone.
notBcVars == <<arcVars, fanVars, splitVars, streamVars, omeVars, lateVars, rankVars,
               comVars, logVars>>

\* go broadcaster.Broadcast(done, ch): the call comes to its select.  The
\* calls are numbered in the order they start.
Broadcast(b) ==
    /\ bcPc[b] = "idle"
    /\ \A c \in Broadcasts : c < b => bcPc[c] # "idle"
    /\ broadcaster' = [broadcaster EXCEPT !.pc[b] = "select"]
    /\ UNCHANGED notBcVars

\* The listeners registered now: their loop is at its receive or between two
\* receives.
Listening == {l \in Listeners : lsPc[l] \in {"receive", "count"}}

\* ch <- j in the producer, the receive in Broadcast and the hand-over to the
\* source of the fan-out, which takes one message at a time: the message is
\* in hand, for every listener registered now.  A closed Broadcaster takes
\* nothing.
BroadcastTake(b) ==
    /\ bcPc[b] = "select"
    /\ \A c \in Broadcasts : bcPc[c] # "offer"
    /\ ~bcClosed
    /\ ~chClosed[b]
    /\ bcTaken[b] < MaxProduced
    /\ broadcaster' = [broadcaster EXCEPT !.taken[b] = @ + 1,
                                          !.pending[b] = Listening,
                                          !.pc[b] = "offer"]
    /\ UNCHANGED notBcVars

\* The message in hand is offered to the listeners one after the other, here
\* to the listener l: l receives it when it is at its receive, and it is
\* dropped for l when l is between two receives; an offer to a closed
\* channel reaches nobody.
BroadcastOffer(b, l) ==
    /\ bcPc[b] = "offer"
    /\ l \in bcPending[b]
    /\ \A k \in bcPending[b] : l <= k
    /\ IF lsPc[l] = "receive"
       THEN broadcaster' = [broadcaster EXCEPT
                                !.pending[b] = @ \ {l},
                                !.lsGot[l] = IF lsDropped[l] THEN 0 ELSE @ + 1,
                                !.lsPc[l] = "count"]
       ELSE broadcaster' = [broadcaster EXCEPT
                                !.pending[b] = @ \ {l},
                                !.lsGot[l] = IF lsPc[l] # "closed" THEN 0 ELSE @,
                                !.lsDropped[l] = lsPc[l] # "closed" \/ @]
    /\ UNCHANGED notBcVars

\* Every listener has been offered the message: the call is back at its
\* select.
BroadcastNext(b) ==
    /\ bcPc[b] = "offer"
    /\ bcPending[b] = {}
    /\ broadcaster' = [broadcaster EXCEPT !.pc[b] = "select"]
    /\ UNCHANGED notBcVars

\* A Broadcast that does not look at the Broadcaster being closed.
ReturnsOnChOnly(b) == chClosed[b]

\* The select of Broadcast ends the call when the Broadcaster is closed or
\* ch is closed.
BroadcastReturns(b) == bcClosed \/ chClosed[b]

BroadcastReturn(b) ==
    /\ bcPc[b] = "select"
    /\ BroadcastReturns(b)
    /\ broadcaster' = [broadcaster EXCEPT !.pc[b] = "returned"]
    /\ UNCHANGED notBcVars

\* defer close(ch) of the producer, once all its sends are done.
ProducerClose(b) ==
    /\ bcPc[b] # "idle"
    /\ ~chClosed[b]
    /\ bcTaken[b] = MaxProduced
    /\ broadcaster' = [broadcaster EXCEPT !.chClosed[b] = TRUE]
    /\ UNCHANGED notBcVars

\* broadcaster.Listen(done) and the first turn of for range: the listener is
\* at its receive.  On a closed Broadcaster the channel is closed at once.
\* The listeners of the tests are there before the first message is sent
\* (time.Sleep before the broadcasts), and are numbered in the order they
\* come.
BroadcasterListen(l) ==
    /\ lsPc[l] = "idle"
    /\ \A k \in Listeners : k < l => lsPc[k] # "idle"
    /\ \A b \in Broadcasts : bcTaken[b] = 0
    /\ broadcaster' = [broadcaster EXCEPT
                           !.lsPc[l] = IF bcClosed THEN "closed" ELSE "receive"]
    /\ UNCHANGED notBcVars

\* atomic.AddInt64(&n, 1) and the next turn of for range.
ListenerCounts(l) ==
    /\ lsPc[l] = "count"
    /\ broadcaster' = [broadcaster EXCEPT !.lsPc[l] = "receive"]
    /\ UNCHANGED notBcVars

\* broadcaster.Close()
BroadcasterClose ==
    /\ ~bcClosed
    /\ broadcaster' = [broadcaster EXCEPT !.closed = TRUE]
    /\ UNCHANGED notBcVars

\* A Broadcaster that closes the channels of its listeners while a message
\* is still being offered.
BroadcasterDrainedAlways == TRUE

\* The messages in hand have been offered to every listener.
BroadcasterDrained == \A b \in Broadcasts : bcPc[b] # "offer"

\* The closed Broadcaster closes the channel of every listener, after
\* draining; the offers still to come find nobody.
ListenersClose ==
    /\ bcClosed
    /\ Listening # {}
    /\ BroadcasterDrained
    /\ broadcaster' = [broadcaster EXCEPT
                           !.lsPc = [l \in Listeners |->
                                        IF l \in Listening THEN "closed"
                                        ELSE lsPc[l]]]
    /\ UNCHANGED notBcVars

\* The tests of the shutdown: Broadcast calls and their producers, the Close
\* of the Broadcaster, and no listener.
NextBroadcasts ==
    \/ \E b \in Broadcasts : Broadcast(b)
    \/ \E b \in Broadcasts : BroadcastTake(b)
    \/ \E b \in Broadcasts : BroadcastNext(b)
    \/ \E b \in Broadcasts : BroadcastReturn(b)
    \/ \E b \in Broadcasts : ProducerClose(b)
    \/ BroadcasterClose

NextBroadcaster ==
    \/ \E b \in Broadcasts : Broadcast(b)
    \/ \E b \in Broadcasts : BroadcastTake(b)
    \/ \E b \in Broadcasts, l \in Listeners : BroadcastOffer(b, l)
    \/ \E b \in Broadcasts : BroadcastNext(b)
    \/ \E b \in Broadcasts : BroadcastReturn(b)
    \/ \E b \in Broadcasts : ProducerClose(b)
    \/ \E l \in Listeners : BroadcasterListen(l)
    \/ \E l \in Listeners : ListenerCounts(l)
    \/ BroadcasterClose
    \/ ListenersClose

(***************************************************************************)
(* Ranker.  The OME feeds it the changes of the orderbook and drains it    *)
(* with Computations(buf).                                                 *)
(***************************************************************************)
RankBuys == 1..MaxRankBuys
RankSells == 1..MaxRankSells
Priorities == 1..MaxPriority

notRankVars == <<arcVars, fanVars, splitVars, streamVars, omeVars, lateVars, bcVars,
                 comVars, logVars>>

\* The order.ID of the b-th buy order and of the s-th sell order: the byte
\* order of the IDs is not the order of the indices.
BuyID(b) == <<b % 2, b>>
SellID(s) == <<(s + 1) % 2, MaxRankBuys + s>>

\* The Priority of the pairing x = <<buy, sell>>: the sum of the priorities
\* of its orders.
PrioritySum(x, buys, sells) == buys[x[1]] + sells[x[2]]

\* An order of the pairings by the priority of the buy order first.
RankBeforeByBuy(x, y, buys, sells) ==
    \/ buys[x[1]] < buys[y[1]]
    \/ /\ buys[x[1]] = buys[y[1]]
       /\ \/ sells[x[2]] < sells[y[2]]
          \/ /\ sells[x[2]] = sells[y[2]]
             /\ \/ BytesCompare(BuyID(x[1]), BuyID(y[1])) < 0
                \/ /\ x[1] = y[1]
                   /\ BytesCompare(SellID(x[2]), SellID(y[2])) < 0

\* The pairing x is given out before the pairing y: lower sum of priorities
\* first, then the lower buy order.ID, then the lower sell order.ID.
RankBefore(x, y, buys, sells) ==
    \/ PrioritySum(x, buys, sells) < PrioritySum(y, buys, sells)
    \/ /\ PrioritySum(x, buys, sells) = PrioritySum(y, buys, sells)
       /\ \/ BytesCompare(BuyID(x[1]), BuyID(y[1])) < 0
          \/ /\ x[1] = y[1]
             /\ BytesCompare(SellID(x[2]), SellID(y[2])) < 0

\* Computations(buf) with len(buf) = n: the first n pairings not yet given
\* out, in order.
RECURSIVE RankerDrain(_, _, _, _)
RankerDrain(pending, n, buys, sells) ==
    IF n = 0 \/ pending = {} THEN <<>>
    ELSE LET m == CHOOSE x \in pending :
                      \A y \in pending \ {x} : RankBefore(x, y, buys, sells)
         IN  <<m>> \o RankerDrain(pending \ {m}, n - 1, buys, sells)

\* InsertBuy(PriorityOrder{Priority: p, Order: b}): the buy order is paired
\* with every sell order inserted.
RankerInsertBuy(b, p) ==
    /\ rkBuys[b] = 0
    /\ ranker' = [ranker EXCEPT
                      !.buys[b] = p,
                      !.pending = @ \cup {<<b, s>> : s \in {t \in RankSells :
                                                               rkSells[t] # 0}},
                      !.n = 0,
                      !.out = <<>>]
    /\ UNCHANGED notRankVars

\* InsertSell(PriorityOrder{Priority: p, Order: s}).
RankerInsertSell(s, p) ==
    /\ rkSells[s] = 0
    /\ ranker' = [ranker EXCEPT
                      !.sells[s] = p,
                      !.pending = @ \cup {<<b, s>> : b \in {t \in RankBuys :
                                                               rkBuys[t] # 0}},
                      !.n = 0,
                      !.out = <<>>]
    /\ UNCHANGED notRankVars

\* Remove(id): the order leaves the side that holds it, with its pairings.
RankerRemove(side, o) ==
    /\ IF side = 1 THEN o \in RankBuys /\ rkBuys[o] # 0
       ELSE o \in RankSells /\ rkSells[o] # 0
    /\ ranker' = [ranker EXCEPT
                      !.buys = IF side = 1 THEN [@ EXCEPT ![o] = 0] ELSE @,
                      !.sells = IF side = 1 THEN @ ELSE [@ EXCEPT ![o] = 0],
                      !.pending = {x \in @ : x[side] # o},
                      !.emitted = {x \in @ : x[side] # o},
                      !.n = 0,
                      !.out = <<>>]
    /\ UNCHANGED notRankVars

\* n := ome.ranker.Computations(buffer[:]): syncRanker hands over its whole
\* buffer.
RankerComputations ==
    LET out == RankerDrain(rkPending, BufferSize, rkBuys, rkSells)
        given == {out[i] : i \in DOMAIN out}
    IN  /\ ranker' = [ranker EXCEPT !.n = BufferSize,
                                    !.out = out,
                                    !.pending = @ \ given,
                                    !.emitted = @ \cup given]
        /\ UNCHANGED notRankVars

NextRanker ==
    \/ \E b \in RankBuys, p \in Priorities : RankerInsertBuy(b, p)
    \/ \E s \in RankSells, p \in Priorities : RankerInsertSell(s, p)
    \/ \E side \in {1, 2}, o \in RankBuys \cup RankSells : RankerRemove(side, o)
    \/ RankerComputations

(***************************************************************************)
(* StreamService                                                           *)
(***************************************************************************)
Connects == 1..MaxConnects
Listens == 1..MaxListens

\* The addresses of the service: the empty address and one that is not.
ServiceAddrs == {"", "a"}

\* The first message of a stream: it has a StreamAddress or not, the
\* StreamAddress has an Address, and its Signature is one that verifies
\* against that Address (Signed) or one that does not.
NoMessage == [StreamAddress |-> FALSE, Address |-> "-", Signed |-> FALSE]
FirstMessages ==
    {[StreamAddress |-> FALSE, Address |-> "", Signed |-> FALSE]}
        \cup {[StreamAddress |-> TRUE, Address |-> a, Signed |-> FALSE] :
                  a \in ServiceAddrs}
        \cup {[StreamAddress |-> TRUE, Address |-> a, Signed |-> TRUE] :
                  a \in ServiceAddrs \ {""}}

NoStream == 0

\* NewStreamService
InitService ==
    /\ connsStream = [a \in ServiceAddrs |-> 0]
    /\ svcChans = <<>>
    /\ connPc = [k \in Connects |-> "idle"]
    /\ connMsg = [k \in Connects |-> NoMessage]
    /\ connAddr = [k \in Connects |-> ""]
    /\ connChan = [k \in Connects |-> 0]
    /\ connErr = [k \in Connects |-> "none"]
    /\ streamDone = [k \in Connects |-> FALSE]
    /\ listenPc = [l \in Listens |-> "idle"]
    /\ listenAddr = [l \in Listens |-> ""]
    /\ listenChan = [l \in Listens |-> 0]
    /\ listenGot = [l \in Listens |-> NoStream]

\* newSafeStream: both mutexes free, done open, nobody uses the stream.
InitSafeStream ==
    /\ sendMu = 0
    /\ recvMu = 0
    /\ ssPc = [t \in 1..MaxStreamUsers |-> "idle"]
    /\ ssDone = FALSE

\* The stream variables that the StreamService leaves alone.
streamerVars == <<streamNodes, hpc, hNode, recStreams, ctxCloses,
                  clientStreams, clientCounter, serverStreams, serverCounter,
                  innerOpens>>

\* verifyStreamAddress: the address of the message when there is one that is
\* not empty, the empty address otherwise, and no error in either case; the
\* signature is not looked at (FIXME in the source).
verifyStreamAddress(message) ==
    [addr |-> IF message.StreamAddress /\ message.Address # ""
              THEN message.Address ELSE "",
     err |-> "nil"]

\* setupConn: the channel of addr, made when there is none.
setupConnChan(addr) ==
    IF connsStream[addr] = 0 THEN Len(svcChans) + 1 ELSE connsStream[addr]
setupConn(addr) ==
    /\ connsStream' = [connsStream EXCEPT ![addr] = setupConnChan(addr)]
    /\ svcChans' = IF connsStream[addr] = 0 THEN Append(svcChans, <<>>)
                   ELSE svcChans

\* teardownConn: delete(service.connsStream, addr)
teardownConn(addr) == connsStream' = [connsStream EXCEPT ![addr] = 0]

\* Connect: stream.Recv() gives the first message, verifyStreamAddress gives
\* the address, and the call goes on unless there is an error.
ConnectRecv(k, message) ==
    /\ connPc[k] = "idle"
    /\ connMsg' = [connMsg EXCEPT ![k] = message]
    /\ LET v == verifyStreamAddress(message)
       IN  IF v.err # "nil"
           THEN /\ connErr' = [connErr EXCEPT ![k] = v.err]
                /\ connPc' = [connPc EXCEPT ![k] = "returned"]
                /\ UNCHANGED connAddr
           ELSE /\ connAddr' = [connAddr EXCEPT ![k] = v.addr]
                /\ connPc' = [connPc EXCEPT ![k] = "setup"]
                /\ UNCHANGED connErr
    /\ UNCHANGED <<connsStream, svcChans, connChan, streamDone, listenPc,
                   listenAddr, listenChan, listenGot>>
    /\ UNCHANGED <<routerVars, omeVars, streamerVars, safeVars>>

\* Connect: stream.Recv() fails and the call returns the error.
ConnectRecvFails(k) ==
    /\ connPc[k] = "idle"
    /\ connErr' = [connErr EXCEPT ![k] = "recv"]
    /\ connPc' = [connPc EXCEPT ![k] = "returned"]
    /\ UNCHANGED <<connsStream, svcChans, connMsg, connAddr, connChan,
                   streamDone, listenPc, listenAddr, listenChan, listenGot>>
    /\ UNCHANGED <<routerVars, omeVars, streamerVars, safeVars>>

\* Connect: streams := service.setupConn(addr)
ConnectSetup(k) ==
    /\ connPc[k] = "setup"
    /\ setupConn(connAddr[k])
    /\ connChan' = [connChan EXCEPT ![k] = setupConnChan(connAddr[k])]
    /\ connPc' = [connPc EXCEPT ![k] = "send"]
    /\ UNCHANGED <<connMsg, connAddr, connErr, streamDone, listenPc,
                   listenAddr, listenChan, listenGot>>
    /\ UNCHANGED <<routerVars, omeVars, streamerVars, safeVars>>

\* Connect: streams <- s, into the buffer of one.
ConnectSend(k) ==
    /\ connPc[k] = "send"
    /\ Len(svcChans[connChan[k]]) < 1
    /\ svcChans' = [svcChans EXCEPT ![connChan[k]] = Append(@, k)]
    /\ connPc' = [connPc EXCEPT ![k] = "wait"]
    /\ UNCHANGED <<connsStream, connMsg, connAddr, connChan, connErr,
                   streamDone, listenPc, listenAddr, listenChan, listenGot>>
    /\ UNCHANGED <<routerVars, omeVars, streamerVars, safeVars>>

\* Connect: the context of the stream is done in one of the two selects; the
\* call returns its error and the deferred teardownConn runs.
ConnectCtxDone(k) ==
    /\ connPc[k] \in {"send", "wait"}
    /\ teardownConn(connAddr[k])
    /\ connErr' = [connErr EXCEPT ![k] = "ctx"]
    /\ connPc' = [connPc EXCEPT ![k] = "returned"]
    /\ UNCHANGED <<svcChans, connMsg, connAddr, connChan, streamDone,
                   listenPc, listenAddr, listenChan, listenGot>>
    /\ UNCHANGED <<routerVars, omeVars, streamerVars, safeVars>>

\* Connect: <-s.done; the call returns nil and the deferred teardownConn runs.
ConnectReturn(k) ==
    /\ connPc[k] = "wait"
    /\ streamDone[k]
    /\ teardownConn(connAddr[k])
    /\ connErr' = [connErr EXCEPT ![k] = "nil"]
    /\ connPc' = [connPc EXCEPT ![k] = "returned"]
    /\ UNCHANGED <<svcChans, connMsg, connAddr, connChan, streamDone,
                   listenPc, listenAddr, listenChan, listenGot>>
    /\ UNCHANGED <<routerVars, omeVars, streamerVars, safeVars>>

\* Listen(ctx, addr): streams := service.setupConn(addr)
Listen(l, addr) ==
    /\ listenPc[l] = "idle"
    /\ setupConn(addr)
    /\ listenAddr' = [listenAddr EXCEPT ![l] = addr]
    /\ listenChan' = [listenChan EXCEPT ![l] = setupConnChan(addr)]
    /\ listenPc' = [listenPc EXCEPT ![l] = "recv"]
    /\ UNCHANGED <<connPc, connMsg, connAddr, connChan, connErr, streamDone,
                   listenGot>>
    /\ UNCHANGED <<routerVars, omeVars, streamerVars, safeVars>>

\* Listen: stream := <-streams; the call returns the stream and the deferred
\* teardownConn runs.
ListenRecv(l) ==
    /\ listenPc[l] = "recv"
    /\ Len(svcChans[listenChan[l]]) > 0
    /\ listenGot' = [listenGot EXCEPT ![l] = Head(svcChans[listenChan[l]])]
    /\ svcChans' = [svcChans EXCEPT ![listenChan[l]] = Tail(@)]
    /\ teardownConn(listenAddr[l])
    /\ listenPc' = [listenPc EXCEPT ![l] = "returned"]
    /\ UNCHANGED <<connPc, connMsg, connAddr, connChan, connErr, streamDone,
                   listenAddr, listenChan>>
    /\ UNCHANGED <<routerVars, omeVars, streamerVars, safeVars>>

\* Listen: ctx is done; the call returns ctx.Err() and the deferred
\* teardownConn runs.
ListenCtxDone(l) ==
    /\ listenPc[l] = "recv"
    /\ teardownConn(listenAddr[l])
    /\ listenPc' = [listenPc EXCEPT ![l] = "returned"]
    /\ UNCHANGED <<svcChans, connPc, connMsg, connAddr, connChan, connErr,
                   streamDone, listenAddr, listenChan, listenGot>>
    /\ UNCHANGED <<routerVars, omeVars, streamerVars, safeVars>>

\* safeStream.Close by the caller of Listen that got the stream.
SafeStreamClose(l) ==
    /\ listenGot[l] # NoStream
    /\ ~streamDone[listenGot[l]]
    /\ streamDone' = [streamDone EXCEPT ![listenGot[l]] = TRUE]
    /\ UNCHANGED <<connsStream, svcChans, connPc, connMsg, connAddr,
                   connChan, connErr, listenPc, listenAddr, listenChan,
                   listenGot>>
    /\ UNCHANGED <<routerVars, omeVars, streamerVars, safeVars>>

NextService ==
    \/ \E k \in Connects, message \in FirstMessages : ConnectRecv(k, message)
    \/ \E k \in Connects : ConnectRecvFails(k)
    \/ \E k \in Connects : ConnectSetup(k)
    \/ \E k \in Connects : ConnectSend(k)
    \/ \E k \in Connects : ConnectCtxDone(k)
    \/ \E k \in Connects : ConnectReturn(k)
    \/ \E l \in Listens, addr \in ServiceAddrs : Listen(l, addr)
    \/ \E l \in Listens : ListenRecv(l)
    \/ \E l \in Listens : ListenCtxDone(l)
    \/ \E l \in Listens : SafeStreamClose(l)

(***************************************************************************)
(* safeStream                                                              *)
(***************************************************************************)
StreamUsers == 1..MaxStreamUsers

\* A goroutine calls Send, Recv or Close and comes to the first Lock of the
\* call.  done is closed once only.
SafeStreamCall(t, op) ==
    /\ ssPc[t] = "idle"
    /\ op = "closeSendLock" =>
           ~ssDone /\ \A u \in StreamUsers :
                          ssPc[u] \notin {"closeSendLock", "closeRecvLock", "closing"}
    /\ ssPc' = [ssPc EXCEPT ![t] = op]
    /\ UNCHANGED <<sendMu, recvMu, ssDone>>
    /\ UNCHANGED <<routerVars, omeVars, streamerVars, svcVars>>

\* Send: stream.sendMu.Lock(), then the goroutine is in stream.stream.Send.
SendLock(t) ==
    /\ ssPc[t] = "sendLock"
    /\ sendMu = 0
    /\ sendMu' = t
    /\ ssPc' = [ssPc EXCEPT ![t] = "sending"]
    /\ UNCHANGED <<recvMu, ssDone>>
    /\ UNCHANGED <<routerVars, omeVars, streamerVars, svcVars>>

\* Send: the transport returns and the deferred Unlock runs.
SendReturn(t) ==
    /\ ssPc[t] = "sending"
    /\ sendMu' = 0
    /\ ssPc' = [ssPc EXCEPT ![t] = "idle"]
    /\ UNCHANGED <<recvMu, ssDone>>
    /\ UNCHANGED <<routerVars, omeVars, streamerVars, svcVars>>

\* Recv: stream.recvMu.Lock(), then the goroutine is in stream.stream.Recv
\* and waits for the peer.
RecvLock(t) ==
    /\ ssPc[t] = "recvLock"
    /\ recvMu = 0
    /\ recvMu' = t
    /\ ssPc' = [ssPc EXCEPT ![t] = "receiving"]
    /\ UNCHANGED <<sendMu, ssDone>>
    /\ UNCHANGED <<routerVars, omeVars, streamerVars, svcVars>>

\* Recv: the peer sends a message (or the transport fails); the transport
\* returns and the deferred Unlock runs.
RecvReturn(t) ==
    /\ ssPc[t] = "receiving"
    /\ recvMu' = 0
    /\ ssPc' = [ssPc EXCEPT ![t] = "idle"]
    /\ UNCHANGED <<sendMu, ssDone>>
    /\ UNCHANGED <<routerVars, omeVars, streamerVars, svcVars>>

\* Close: stream.sendMu.Lock()
CloseSendLock(t) ==
    /\ ssPc[t] = "closeSendLock"
    /\ sendMu = 0
    /\ sendMu' = t
    /\ ssPc' = [ssPc EXCEPT ![t] = "closeRecvLock"]
    /\ UNCHANGED <<recvMu, ssDone>>
    /\ UNCHANGED <<routerVars, omeVars, streamerVars, svcVars>>

\* Close: stream.recvMu.Lock(), with sendMu held.
CloseRecvLock(t) ==
    /\ ssPc[t] = "closeRecvLock"
    /\ recvMu = 0
    /\ recvMu' = t
    /\ ssPc' = [ssPc EXCEPT ![t] = "closing"]
    /\ UNCHANGED <<sendMu, ssDone>>
    /\ UNCHANGED <<routerVars, omeVars, streamerVars, svcVars>>

\* Close: close(stream.done), and the deferred calls unlock both mutexes.
CloseReturn(t) ==
    /\ ssPc[t] = "closing"
    /\ ssDone' = TRUE
    /\ sendMu' = 0
    /\ recvMu' = 0
    /\ ssPc' = [ssPc EXCEPT ![t] = "idle"]
    /\ UNCHANGED <<routerVars, omeVars, streamerVars, svcVars>>

NextSafeStream ==
    \/ \E t \in StreamUsers, op \in {"sendLock", "recvLock", "closeSendLock"} :
          SafeStreamCall(t, op)
    \/ \E t \in StreamUsers : SendLock(t)
    \/ \E t \in StreamUsers : SendReturn(t)
    \/ \E t \in StreamUsers : RecvLock(t)
    \/ \E t \in StreamUsers : RecvReturn(t)
    \/ \E t \in StreamUsers : CloseSendLock(t)
    \/ \E t \in StreamUsers : CloseRecvLock(t)
    \/ \E t \in StreamUsers : CloseReturn(t)

(***************************************************************************)
(* Streamer, StreamRecycler and the mock client and server of the stream   *)
(* tests                                                                   *)
(***************************************************************************)
Holders == 1..MaxHolders

\* Two nodes with distinct addresses, fresh streamers, recyclers and mocks.
InitStream ==
    /\ streamNodes \in {ns \in SUBSET Addrs : Cardinality(ns) = 2}
    /\ hpc = [h \in Holders |-> "idle"]
    /\ hNode = [h \in Holders |-> CHOOSE n \in streamNodes : TRUE]
    /\ recStreams = <<>>
    /\ ctxCloses = <<>>
    /\ clientStreams = [n \in Addrs |-> <<>>]
    /\ clientCounter = [n \in Addrs |-> 0]
    /\ serverStreams = [n \in Addrs |-> <<>>]
    /\ serverCounter = [n \in Addrs |-> 0]
    /\ innerOpens = [n \in Addrs |-> 0]
    /\ InitService
    /\ InitSafeStream

\* ctx.Done() of an inner context is closed.
CtxDone(k) == ctxCloses[k] > 0

\* The node a holder opens toward: the other node.
PeerOf(n) == CHOOSE p \in streamNodes : p # n

\* mockClient.Connect: the stream is stored under the next index; a
\* goroutine removes it when ctx is done.
MockConnect(streams, counter, addr, ctx) ==
    [streams |-> MapSet(streams, counter, [addr |-> addr, ctx |-> ctx]),
     counter |-> counter + 1]

\* mockServer.Listen: as mockClient.Connect, on the server's map.
MockListen(streams, counter, addr, ctx) ==
    [streams |-> MapSet(streams, counter, [addr |-> addr, ctx |-> ctx]),
     counter |-> counter + 1]

\* A recycler that opens a stream for every Open call.
SharesStreamNever(n, p) == FALSE

\* StreamRecycler.Open: is there a stream to p to share?
SharesStream(n, p) == <<n, p>> \in DOMAIN recStreams

\* A recycler that closes the stream at every release.
ClosesStreamAlways(refs) == TRUE

\* StreamRecycler: the release that brings the count to zero closes.
ClosesStream(refs) == refs = 0

\* StreamRecycler.Open(ctx, p) on node n.  With a stream to p at hand its
\* count goes up.  Otherwise the Streamer opens one, under a context of the
\* recycler's own: it connects (client role) when n is below p in byte
\* order and listens (server role) otherwise.
RecyclerOpen(h, n) ==
    LET p == PeerOf(n)
        k == Len(ctxCloses) + 1
    IN /\ hpc[h] = "idle"
       /\ IF h = 1 THEN TRUE ELSE hpc[h - 1] # "idle"
       /\ hpc' = [hpc EXCEPT ![h] = "held"]
       /\ IF SharesStream(n, p)
          THEN /\ recStreams' = [recStreams EXCEPT ![<<n, p>>].refs = @ + 1]
               /\ UNCHANGED <<ctxCloses, clientStreams, clientCounter,
                              serverStreams, serverCounter, innerOpens>>
          ELSE /\ recStreams' = MapSet(recStreams, <<n, p>>, [refs |-> 1, ctx |-> k])
               /\ ctxCloses' = Append(ctxCloses, 0)
               /\ innerOpens' = [innerOpens EXCEPT ![n] = @ + 1]
               /\ IF Dials(n, p)
                  THEN LET r == MockConnect(clientStreams[n], clientCounter[n], p, k)
                       IN /\ clientStreams' = [clientStreams EXCEPT ![n] = r.streams]
                          /\ clientCounter' = [clientCounter EXCEPT ![n] = r.counter]
                          /\ UNCHANGED <<serverStreams, serverCounter>>
                  ELSE LET r == MockListen(serverStreams[n], serverCounter[n], p, k)
                       IN /\ serverStreams' = [serverStreams EXCEPT ![n] = r.streams]
                          /\ serverCounter' = [serverCounter EXCEPT ![n] = r.counter]
                          /\ UNCHANGED <<clientStreams, clientCounter>>
       /\ hNode' = [hNode EXCEPT ![h] = n]
       /\ UNCHANGED streamNodes
       /\ UNCHANGED <<routerVars, omeVars, svcVars, safeVars>>

\* The holder's context is cancelled.
CancelHolder(h) ==
    /\ hpc[h] = "held"
    /\ hpc' = [hpc EXCEPT ![h] = "cancelled"]
    /\ UNCHANGED <<streamNodes, hNode, recStreams, ctxCloses, clientStreams,
                   clientCounter, serverStreams, serverCounter, innerOpens>>
    /\ UNCHANGED <<routerVars, omeVars, svcVars, safeVars>>

\* StreamRecycler, after the holder's context has ended: the count goes
\* down; at zero the stream is closed (its context ends) and removed.
RecyclerRelease(h) ==
    LET n == hNode[h]
        p == PeerOf(n)
        refs == recStreams[<<n, p>>].refs - 1
    IN /\ hpc[h] = "cancelled"
       /\ hpc' = [hpc EXCEPT ![h] = "released"]
       /\ <<n, p>> \in DOMAIN recStreams
       /\ IF ClosesStream(refs)
          THEN /\ ctxCloses' = [ctxCloses EXCEPT ![recStreams[<<n, p>>].ctx] = @ + 1]
               /\ recStreams' = MapDelete(recStreams, <<n, p>>)
          ELSE /\ recStreams' = [recStreams EXCEPT ![<<n, p>>].refs = refs]
               /\ UNCHANGED ctxCloses
       /\ UNCHANGED <<streamNodes, hNode, clientStreams, clientCounter,
                      serverStreams, serverCounter, innerOpens>>
       /\ UNCHANGED <<routerVars, omeVars, svcVars, safeVars>>

\* The goroutine of mockClient.Connect: <-ctx.Done(), then delete.
MockClientReap(n, i) ==
    /\ i \in DOMAIN clientStreams[n]
    /\ CtxDone(clientStreams[n][i].ctx)
    /\ clientStreams' = [clientStreams EXCEPT ![n] = MapDelete(@, i)]
    /\ UNCHANGED <<streamNodes, hpc, hNode, recStreams, ctxCloses, clientCounter,
                   serverStreams, serverCounter, innerOpens>>
    /\ UNCHANGED <<routerVars, omeVars, svcVars, safeVars>>

\* The goroutine of mockServer.Listen: <-ctx.Done(), then delete.
MockServerReap(n, i) ==
    /\ i \in DOMAIN serverStreams[n]
    /\ CtxDone(serverStreams[n][i].ctx)
    /\ serverStreams' = [serverStreams EXCEPT ![n] = MapDelete(@, i)]
    /\ UNCHANGED <<streamNodes, hpc, hNode, recStreams, ctxCloses, clientStreams,
                   clientCounter, serverCounter, innerOpens>>
    /\ UNCHANGED <<routerVars, omeVars, svcVars, safeVars>>

StreamIndexes == 0..(MaxHolders - 1)

NextStream ==
    \/ \E h \in Holders : \E n \in streamNodes : RecyclerOpen(h, n)
    \/ \E h \in Holders : CancelHolder(h)
    \/ \E h \in Holders : RecyclerRelease(h)
    \/ \E n \in Addrs, i \in StreamIndexes : MockClientReap(n, i)
    \/ \E n \in Addrs, i \in StreamIndexes : MockServerReap(n, i)

(***************************************************************************)
(* The channels of one compute arc: the sender that setupCompute makes,    *)
(* and the computationReceiver and errs that every Compute call makes,     *)
(* gives to the two Splitters of the arc and closes when it returns.       *)
(***************************************************************************)
Computes == 1..MaxComputes

notCmpVars == <<arcVars, fanVars, splitVars, streamVars, omeVars, baseVars,
                stlVars, obVars, hypVars, wsVars>>

\* close(ch) of a channel closed n times before: the second close panics.
ClosePanics(n) == IF n >= 1 THEN "close of closed channel" ELSE "none"

\* Router.Compute for the peer: the two channels are made, the goroutine
\* starts and comes to router.mu.Lock().  Calls are numbered in the order
\* they are made.
Compute(c) ==
    /\ cpPanic = "none"
    /\ cpPc[c] = "idle"
    /\ IF c = 1 THEN TRUE ELSE cpPc[c - 1] # "idle"
    /\ compute' = [compute EXCEPT !.pc[c] = "lock"]
    /\ UNCHANGED notCmpVars

\* The first section under router.mu, from Lock to Unlock: setupCompute(addr)
\* when the maps have no entry, which makes a new sender and two new
\* Splitters on the receiver and errs of the transport, and
\* computeArcs[addr]++.
ComputeAcquire(c) ==
    /\ cpPanic = "none"
    /\ cpPc[c] = "lock"
    /\ compute' =
          IF cpPresent
          THEN [compute EXCEPT !.arcs = @ + 1, !.pc[c] = "subscribe"]
          ELSE [compute EXCEPT
                   !.present = TRUE,
                   !.sender = 0,
                   !.spClosed = [p \in SplitterIds |-> FALSE],
                   !.subs = [p \in SplitterIds |-> {}],
                   !.arcs = @ + 1,
                   !.pc[c] = "subscribe"]
    /\ UNCHANGED notCmpVars

\* router.computeReceivers[addr].Subscribe(computationReceiver), then
\* router.computeErrs[addr].Subscribe(errs).  The Splitter registers the
\* sink unless it is closed or has maxConnections sinks.  Compute calls
\* Subscribe as a statement: the error is dropped.
ComputeSubscribeSink(c, p) ==
    /\ cpPanic = "none"
    /\ cpPc[c] = (IF p = "receivers" THEN "subscribe" ELSE "subscribeErrs")
    /\ LET err == IF cpSpClosed[p] THEN "ErrClosed"
                  ELSE IF Cardinality(cpSubs[p]) >= cpCap
                       THEN "ErrTooManySubscribers"
                  ELSE "nil"
           next == IF p = "receivers" THEN "subscribeErrs" ELSE "loop"
       IN  compute' =
              IF err = "nil"
              THEN [compute EXCEPT !.subs[p] = @ \cup {c}, !.pc[c] = next]
              ELSE [compute EXCEPT !.pc[c] = next]
    /\ UNCHANGED notCmpVars

\* The caller closes done; the goroutine reads done in its two selects only.
ComputeCloseDone(c) ==
    /\ cpPanic = "none"
    /\ cpPc[c] \in {"loop", "forward"}
    /\ ~cpDone[c]
    /\ compute' = [compute EXCEPT !.done[c] = TRUE]
    /\ UNCHANGED notCmpVars

\* The select of the loop: <-done returns, a closed computationSender
\* returns, a computation goes to the inner select.
ComputeLoop(c, closed) ==
    /\ cpPanic = "none"
    /\ cpPc[c] = "loop"
    /\ \/ /\ cpDone[c] \/ closed
          /\ compute' = [compute EXCEPT !.pc[c] = "unsubscribe"]
       \/ /\ ~closed
          /\ compute' = [compute EXCEPT !.pc[c] = "forward"]
    /\ UNCHANGED notCmpVars

\* The inner select: <-done, or the send on router.computeSenders[addr],
\* which the transport takes.  A send on a closed channel panics; a send on
\* the nil channel of a deleted entry never completes.
ComputeForward(c) ==
    /\ cpPanic = "none"
    /\ cpPc[c] = "forward"
    /\ \/ /\ cpDone[c]
          /\ compute' = [compute EXCEPT !.pc[c] = "loop"]
       \/ /\ cpPresent
          /\ compute' =
                IF cpSender >= 1
                THEN [compute EXCEPT !.panic = "send on closed channel"]
                ELSE [compute EXCEPT !.pc[c] = "loop"]
    /\ UNCHANGED notCmpVars

\* The deferred function: Unsubscribe(computationReceiver), then
\* Unsubscribe(errs).
ComputeUnsubscribe(c, p) ==
    /\ cpPanic = "none"
    /\ cpPc[c] = (IF p = "receivers" THEN "unsubscribe" ELSE "unsubscribeErrs")
    /\ compute' = [compute EXCEPT
                      !.subs[p] = @ \ {c},
                      !.pc[c] = IF p = "receivers" THEN "unsubscribeErrs"
                                ELSE "release"]
    /\ UNCHANGED notCmpVars

\* The deferred function under router.mu, from Lock to Unlock:
\* computeArcs[addr]--, and teardownCompute at zero:
\* close(router.computeSenders[addr]) and the three deletes.
ComputeRelease(c) ==
    /\ cpPanic = "none"
    /\ cpPc[c] = "release"
    /\ compute' =
          IF cpArcs # 1
          THEN [compute EXCEPT !.arcs = @ - 1, !.pc[c] = "closeErrs"]
          ELSE [compute EXCEPT
                   !.arcs = 0,
                   !.panic = ClosePanics(cpSender),
                   !.sender = @ + 1,
                   !.present = FALSE,
                   !.pc[c] = "closeErrs"]
    /\ UNCHANGED notCmpVars

\* defer close(errs), then defer close(computationReceiver): the deferred
\* calls run last in first out, after the deferred function.
ComputeClose(c, p) ==
    /\ cpPanic = "none"
    /\ cpPc[c] = (IF p = "errs" THEN "closeErrs" ELSE "closeReceiver")
    /\ compute' = [compute EXCEPT
                      !.panic = ClosePanics(cpCloses[c][p]),
                      !.closes[c][p] = @ + 1,
                      !.pc[c] = IF p = "errs" THEN "closeReceiver"
                                ELSE "returned"]
    /\ UNCHANGED notCmpVars

\* The transport closes the receiver or the errs it gave to setupCompute, and
\* the Splitter on it finds its source closed: it closes every sink
\* subscribed and is closed itself.
TransportClose(p) ==
    /\ cpPanic = "none"
    /\ cpPresent
    /\ ~cpSpClosed[p]
    /\ compute' = [compute EXCEPT
                      !.spClosed[p] = TRUE,
                      !.panic = IF \E c \in cpSubs[p] : cpCloses[c][p] >= 1
                                THEN "close of closed channel" ELSE "none",
                      !.closes = [c \in Computes |->
                                    IF c \in cpSubs[p]
                                    THEN [@[c] EXCEPT ![p] = @ + 1]
                                    ELSE @[c]]]
    /\ UNCHANGED notCmpVars

NextCompute ==
    \/ \E c \in Computes : Compute(c)
    \/ \E c \in Computes : ComputeAcquire(c)
    \/ \E c \in Computes, p \in SplitterIds : ComputeSubscribeSink(c, p)
    \/ \E c \in Computes : ComputeCloseDone(c)
    \/ \E c \in Computes, closed \in BOOLEAN : ComputeLoop(c, closed)
    \/ \E c \in Computes : ComputeForward(c)
    \/ \E c \in Computes, p \in SplitterIds : ComputeUnsubscribe(c, p)
    \/ \E c \in Computes : ComputeRelease(c)
    \/ \E c \in Computes, p \in SplitterIds : ComputeClose(c, p)
    \/ \E p \in SplitterIds : TransportClose(p)

(***************************************************************************)
(* Ome                                                                     *)
(***************************************************************************)

\* The clock counts periods of five minutes: 5 * time.Minute is one unit.
ComputationBacklogExpiry == 1

ComputationStateNil == 0
ComputationStateMatched == 1
ComputationStateMismatched == 2
ComputationStateAccepted == 3
ComputationStateRejected == 4
ComputationStateSettled == 5

ComputationStates == ComputationStateNil..ComputationStateSettled

\* Capacity of the matches channel made by Run.
MatchesCap == 64

\* A ComputationID stands for the hash of its pair of orders.  Order 0 is a
\* buy order; it pairs with each of the sell orders 1..MaxComs.
ComIDs == 1..MaxComs
Orders == 0..MaxComs
PipelineComIDs == 1..MaxPipelineComs
PipelineOrders == 0..MaxPipelineComs

NewComputation(id) ==
    [ID |-> id, State |-> ComputationStateNil, Match |-> FALSE,
     Timestamp |-> 0, Buy |-> 0, Sell |-> id]

\* The zero cal.Epoch and the epochs handed to OnChangeEpoch.
\* The epoch with hash h takes every address but the h-th (modulo 3).
ZeroEpoch == [Hash |-> 0, Darknodes |-> {}]
EpochDarknodes(h) ==
    CASE h % 3 = 1 -> {<<0, 2>>, <<1, 0>>}
      [] h % 3 = 2 -> {<<0, 1>>, <<1, 0>>}
      [] OTHER -> {<<0, 1>>, <<0, 2>>}

\* The goroutines that Run adds to its WaitGroup.
Workers == {"orderbook", "ranker", "confirmer", "backlog"}

\* Capacity of the errs channel made by Run.
ErrsCap == 64

NoNetworks == [h \in {} |-> {}]
NoBacklog == [id \in {} |-> NewComputation(1)]
NoSweep == [backlog |-> NoBacklog, time |-> 0]

(***************************************************************************)
(* Computation.  An order.ID is a byte array; the model uses two bytes.    *)
(***************************************************************************)
OrderIDs == {<<x, y>> : x, y \in 0..MaxByte}

notComVars == <<arcVars, fanVars, splitVars, streamVars, omeVars, lateVars, bcVars,
                rankVars, logVars>>

\* crypto.Keccak256(data...): a hash of the concatenation of its arguments,
\* here a polynomial of the bytes cut to sixteen bits.
RECURSIVE KeccakAbsorb(_, _)
KeccakAbsorb(h, data) ==
    IF data = <<>> THEN h
    ELSE KeccakAbsorb((h * 31 + Head(data) + 1) % 65536, Tail(data))
Keccak256(data) == KeccakAbsorb(7, data)

\* A constructor that hashes the two order IDs in byte order, whichever is
\* the buy order.
NewComputationSorted(buy, sell) ==
    [ID |-> IF BytesCompare(buy, sell) <= 0 THEN Keccak256(buy \o sell)
            ELSE Keccak256(sell \o buy),
     State |-> ComputationStateNil, Priority |-> 0, Match |-> FALSE,
     Timestamp |-> 0, Buy |-> buy, Sell |-> sell]

\* NewComputation(buy, sell) in full: the fields not named are the zero
\* values.  (NewComputation(id) above abbreviates it for the pipeline.)
NewComputationOf(buy, sell) ==
    [ID |-> Keccak256(buy \o sell),
     State |-> ComputationStateNil, Priority |-> 0, Match |-> FALSE,
     Timestamp |-> 0, Buy |-> buy, Sell |-> sell]

\* A caller makes NewComputation(buy, sell).
NewComputationCall(buy, sell) ==
    /\ newComputation' = [args |-> <<buy, sell>>,
                          com |-> NewComputationOf(buy, sell),
                          swap |-> NoComputation]
    /\ UNCHANGED notComVars

\* The caller makes NewComputation(sell, buy) of the same orders.
NewComputationSwapped ==
    /\ ncArgs # NoArgs
    /\ ncSwap = NoComputation
    /\ newComputation' =
           [newComputation EXCEPT
                !.swap = NewComputationOf(ncArgs[2], ncArgs[1])]
    /\ UNCHANGED notComVars

NextComputation ==
    \/ \E buy, sell \in OrderIDs : NewComputationCall(buy, sell)
    \/ NewComputationSwapped

(***************************************************************************)
(* logger: the DefaultLogger and the package functions that use it.        *)
(***************************************************************************)
LogCallers == 1..MaxLogCalls
Loggers == 1..MaxLoggers

notLogVars == <<arcVars, fanVars, splitVars, streamVars, omeVars, lateVars, bcVars,
                rankVars, comVars>>

\* A goroutine calls SetDefaultLogger(l) and comes to its Lock.
SetDefaultLogger(t, l) ==
    /\ lgPc[t] = "idle"
    /\ logger' = [logger EXCEPT
                      !.op[t] = [fn |-> "SetDefaultLogger", logger |-> l],
                      !.pc[t] = "lock"]
    /\ UNCHANGED notLogVars

\* A goroutine calls LogInfo (or any other Log function: they differ in the
\* method of DefaultLogger they call) and comes to its Lock.
LogInfo(t) ==
    /\ lgPc[t] = "idle"
    /\ logger' = [logger EXCEPT
                      !.op[t] = [fn |-> "LogInfo", logger |-> -1],
                      !.pc[t] = "lock"]
    /\ UNCHANGED notLogVars

\* defaultLoggerMu.Lock(): the first statement of every function, and the
\* call SetDefaultLogger defers.  It waits while any goroutine, the caller
\* included, holds the mutex.
DefaultLoggerLock(t) ==
    /\ lgPc[t] \in {"lock", "deferred"}
    /\ lgMu = 0
    /\ logger' = [logger EXCEPT
                      !.mu = t,
                      !.pc[t] = IF @ = "lock" THEN "body" ELSE "returned"]
    /\ UNCHANGED notLogVars

\* SetDefaultLogger under the lock: DefaultLogger.Stop() and
\* DefaultLogger = logger; the deferred call comes next.
SetDefaultLoggerBody(t) ==
    /\ lgPc[t] = "body"
    /\ lgOp[t].fn = "SetDefaultLogger"
    /\ logger' = [logger EXCEPT !.started = @ \ {lgDefault},
                                !.default = lgOp[t].logger,
                                !.pc[t] = "deferred"]
    /\ UNCHANGED notLogVars

\* LogInfo under the lock: DefaultLogger.Info(message).
LogInfoBody(t) ==
    /\ lgPc[t] = "body"
    /\ lgOp[t].fn = "LogInfo"
    /\ logger' = [logger EXCEPT !.handled[t] = lgDefault,
                                !.pc[t] = "unlock"]
    /\ UNCHANGED notLogVars

\* The defer of LogInfo: defaultLoggerMu.Unlock(), and the function returns.
DefaultLoggerUnlock(t) ==
    /\ lgPc[t] = "unlock"
    /\ logger' = [logger EXCEPT !.mu = 0, !.pc[t] = "returned"]
    /\ UNCHANGED notLogVars

NextLogger ==
    \/ \E t \in LogCallers, l \in Loggers : SetDefaultLogger(t, l)
    \/ \E t \in LogCallers : LogInfo(t)
    \/ \E t \in LogCallers : DefaultLoggerLock(t)
    \/ \E t \in LogCallers : SetDefaultLoggerBody(t)
    \/ \E t \in LogCallers : LogInfoBody(t)
    \/ \E t \in LogCallers : DefaultLoggerUnlock(t)


InitOme ==
    /\ now = 0
    /\ xi = ZeroEpoch
    /\ xiMu = FALSE
    /\ smpcNetworks = NoNetworks
    /\ changePc = "idle"
    /\ changeArg = ZeroEpoch
    /\ epochCalls = 0
    /\ returnedHash = 0
    /\ emitted = {}
    /\ stored = {}
    /\ computationBacklog = NoBacklog
    /\ computationBacklogMu = "free"
    /\ drainPc = "idle"
    /\ drainBuffer = <<>>
    /\ drainI = 0
    /\ drainXi = 0
    /\ sweepPc = "idle"
    /\ sweepBuffer = <<>>
    /\ sweepI = 0
    /\ sweepXi = 0
    /\ sweepStart = NoSweep
    /\ resolving = {}
    /\ matches = <<>>
    /\ confirmations = <<>>
    /\ insertedAt = [id \in ComIDs |-> -1]
    /\ resolves = {}
    /\ handed = [id \in ComIDs |-> <<>>]
    /\ omeDone = FALSE
    /\ workerPc = [w \in Workers |->
                      IF w \in {"orderbook", "ranker"} THEN "top" ELSE "select"]
    /\ tickPending = FALSE
    /\ errs = 0
    /\ errsClosed = FALSE
    /\ errorsMade = 0

epochVars == <<xi, xiMu, smpcNetworks, changePc, changeArg, epochCalls,
               returnedHash>>
drainVars == <<drainPc, drainBuffer, drainI, drainXi>>
sweepVars == <<sweepPc, sweepBuffer, sweepI, sweepXi, sweepStart>>

\* ---- OnChangeEpoch ----

\* smpcer.Disconnect and smpcer.Connect.
SmpcDisconnect(networks, hash) == MapDelete(networks, hash)
SmpcConnect(networks, hash, darknodes) == MapSet(networks, hash, darknodes)

\* The hash OnChangeEpoch disconnects: that of the epoch being left.
DisconnectsNewHash == changeArg.Hash
DisconnectsHash == xi.Hash

\* A new cal.Epoch is observed: ome.xiMu.Lock().
ChangeEpochLock(darknodes) ==
    /\ changePc = "idle"
    /\ epochCalls < MaxEpochs
    /\ ~xiMu
    /\ xiMu' = TRUE
    /\ changeArg' = [Hash |-> epochCalls + 1, Darknodes |-> darknodes]
    /\ epochCalls' = epochCalls + 1
    /\ changePc' = "disconnect"
    /\ UNCHANGED <<xi, smpcNetworks, returnedHash>>
    /\ UNCHANGED <<now, emitted, stored, computationBacklog,
                   computationBacklogMu, drainVars, sweepVars, resolving,
                   matches, confirmations, insertedAt, resolves, handed>>
    /\ UNCHANGED <<routerVars, streamVars, runVars>>

ChangeEpochDisconnect ==
    /\ changePc = "disconnect"
    /\ smpcNetworks' = SmpcDisconnect(smpcNetworks, DisconnectsHash)
    /\ changePc' = "assign"
    /\ UNCHANGED <<xi, xiMu, changeArg, epochCalls, returnedHash>>
    /\ UNCHANGED <<now, emitted, stored, computationBacklog,
                   computationBacklogMu, drainVars, sweepVars, resolving,
                   matches, confirmations, insertedAt, resolves, handed>>
    /\ UNCHANGED <<routerVars, streamVars, runVars>>

ChangeEpochAssign ==
    /\ changePc = "assign"
    /\ xi' = changeArg
    /\ changePc' = "connect"
    /\ UNCHANGED <<xiMu, smpcNetworks, changeArg, epochCalls, returnedHash>>
    /\ UNCHANGED <<now, emitted, stored, computationBacklog,
                   computationBacklogMu, drainVars, sweepVars, resolving,
                   matches, confirmations, insertedAt, resolves, handed>>
    /\ UNCHANGED <<routerVars, streamVars, runVars>>

ChangeEpochConnect ==
    /\ changePc = "connect"
    /\ smpcNetworks' = SmpcConnect(smpcNetworks, xi.Hash, xi.Darknodes)
    /\ changePc' = "unlock"
    /\ UNCHANGED <<xi, xiMu, changeArg, epochCalls, returnedHash>>
    /\ UNCHANGED <<now, emitted, stored, computationBacklog,
                   computationBacklogMu, drainVars, sweepVars, resolving,
                   matches, confirmations, insertedAt, resolves, handed>>
    /\ UNCHANGED <<routerVars, streamVars, runVars>>

\* The deferred ome.xiMu.Unlock(); OnChangeEpoch returns.
ChangeEpochReturn ==
    /\ changePc = "unlock"
    /\ xiMu' = FALSE
    /\ returnedHash' = xi.Hash
    /\ changePc' = "idle"
    /\ UNCHANGED <<xi, smpcNetworks, changeArg, epochCalls>>
    /\ UNCHANGED <<now, emitted, stored, computationBacklog,
                   computationBacklogMu, drainVars, sweepVars, resolving,
                   matches, confirmations, insertedAt, resolves, handed>>
    /\ UNCHANGED <<routerVars, streamVars, runVars>>

\* ---- Storer, Matcher, Confirmer, Settler ----

\* storer.OrderFragment finds both fragments.
BuyFragmentStored(com) == com.Buy \in stored
FragmentsStored(com) == com.Buy \in stored /\ com.Sell \in stored

\* A fragment reaches the Storer.
FragmentArrives(o) ==
    /\ o \notin stored
    /\ stored' = stored \cup {o}
    /\ UNCHANGED <<now, emitted, computationBacklog, computationBacklogMu,
                   drainVars, sweepVars, resolving, matches, confirmations,
                   insertedAt, resolves, handed, epochVars>>
    /\ UNCHANGED <<routerVars, streamVars, runVars>>

\* matcher.Resolve(hash, com, ...) is invoked.  The call is stale when a call
\* of OnChangeEpoch has returned and hash is not the hash of the last one
\* that did.
Resolved(hash, com) ==
    resolves \cup {[ID |-> com.ID,
                    stale |-> returnedHash # 0 /\ hash # returnedHash]}

HandedOn(com) == [handed EXCEPT ![com.ID] = Append(@, com.State)]

\* The Computation the Matcher gives to its callback.
MatcherResult(com, match) ==
    [com EXCEPT !.State = IF match THEN ComputationStateMatched
                          ELSE ComputationStateMismatched,
                !.Match = match]

\* The callback of sendComputationToMatcher sends matches only.
ForwardsNothing(com) == FALSE
ForwardsMismatches(com) == TRUE
ForwardsToConfirmer(com) == com.Match

\* The Matcher finishes a Resolve and invokes the callback.
MatcherFinish(com, match) ==
    /\ com \in resolving
    /\ resolving' = resolving \ {com}
    /\ IF ForwardsToConfirmer(MatcherResult(com, match))
       THEN /\ Len(matches) < MatchesCap
            /\ matches' = Append(matches, MatcherResult(com, match))
            /\ handed' = HandedOn(MatcherResult(com, match))
       ELSE UNCHANGED <<matches, handed>>
    /\ UNCHANGED <<now, emitted, stored, computationBacklog,
                   computationBacklogMu, drainVars, sweepVars, confirmations,
                   insertedAt, resolves, epochVars>>
    /\ UNCHANGED <<routerVars, streamVars, runVars>>

\* The Confirmer takes a match and gives its confirmation.
ConfirmerConfirm(state) ==
    /\ matches # <<>>
    /\ matches' = Tail(matches)
    /\ confirmations' =
          Append(confirmations, [Head(matches) EXCEPT !.State = state])
    /\ UNCHANGED <<now, emitted, stored, computationBacklog,
                   computationBacklogMu, drainVars, sweepVars, resolving,
                   insertedAt, resolves, handed, epochVars>>
    /\ UNCHANGED <<routerVars, streamVars, runVars>>

\* syncConfirmerToSettler: a confirmation is read and handed to the Settler
\* with the hash read under the read lock.
SettleConfirmation ==
    /\ confirmations # <<>>
    /\ ~xiMu
    /\ confirmations' = Tail(confirmations)
    /\ handed' = HandedOn(Head(confirmations))
    /\ UNCHANGED <<now, emitted, stored, computationBacklog,
                   computationBacklogMu, drainVars, sweepVars, resolving,
                   matches, insertedAt, resolves, epochVars>>
    /\ UNCHANGED <<routerVars, streamVars, runVars>>

\* ---- Ranker worker: syncRanker ----

RECURSIVE SortedSeq(_)
SortedSeq(S) ==
    IF S = {} THEN <<>>
    ELSE LET m == CHOOSE x \in S : \A y \in S : x <= y
         IN  <<m>> \o SortedSeq(S \ {m})

\* ranker.Computations(buffer[:]) gives the Computations of ids, not given
\* before, in priority order.
DrainFetch(ids, states, stamps) ==
    /\ drainPc = "idle"
    /\ ids # {}
    /\ Cardinality(ids) <= BufferSize
    /\ emitted' = emitted \cup ids
    /\ drainBuffer' =
          [i \in 1..Cardinality(ids) |->
              LET id == SortedSeq(ids)[i]
              IN  [NewComputation(id) EXCEPT
                      !.State = states[id],
                      !.Match = states[id] \in {ComputationStateMatched,
                                                ComputationStateAccepted,
                                                ComputationStateSettled},
                      !.Timestamp = stamps[id]]]
    /\ drainPc' = "fetched"
    /\ UNCHANGED <<drainI, drainXi>>
    /\ UNCHANGED <<now, stored, computationBacklog, computationBacklogMu,
                   sweepVars, resolving, matches, confirmations, insertedAt,
                   resolves, handed, epochVars>>
    /\ UNCHANGED <<routerVars, streamVars, runVars>>

\* The hash is read once under the read lock, before the loop.
DrainReadEpoch ==
    /\ drainPc = "fetched"
    /\ ~xiMu
    /\ drainXi' = xi.Hash
    /\ drainI' = 1
    /\ drainPc' = "dispatch"
    /\ UNCHANGED drainBuffer
    /\ UNCHANGED <<now, emitted, stored, computationBacklog,
                   computationBacklogMu, sweepVars, resolving, matches,
                   confirmations, insertedAt, resolves, handed, epochVars>>
    /\ UNCHANGED <<routerVars, streamVars, runVars>>

\* The case of the switch of syncRanker that sends to the Settler.
SettlesSettledToo(com) ==
    com.State \in {ComputationStateAccepted, ComputationStateSettled}
SettlesFromRanker(com) == com.State = ComputationStateAccepted

\* One turn of the loop of syncRanker; the function returns after the last.
DrainDispatch ==
    /\ drainPc = "dispatch"
    /\ LET com == drainBuffer[drainI]
       IN  CASE com.State = ComputationStateNil ->
                  IF FragmentsStored(com)
                  THEN /\ resolving' = resolving \cup {com}
                       /\ resolves' = Resolved(drainXi, com)
                       /\ handed' = HandedOn(com)
                       /\ UNCHANGED <<computationBacklog, insertedAt, matches>>
                  ELSE /\ computationBacklogMu = "free"
                       /\ computationBacklog' =
                             MapSet(computationBacklog, com.ID, com)
                       /\ insertedAt' = [insertedAt EXCEPT ![com.ID] = now]
                       /\ UNCHANGED <<resolving, resolves, handed, matches>>
             [] com.State = ComputationStateMatched ->
                  /\ Len(matches) < MatchesCap
                  /\ matches' = Append(matches, com)
                  /\ handed' = HandedOn(com)
                  /\ UNCHANGED <<computationBacklog, insertedAt, resolving,
                                 resolves>>
             [] SettlesFromRanker(com) ->
                  /\ handed' = HandedOn(com)
                  /\ UNCHANGED <<computationBacklog, insertedAt, resolving,
                                 resolves, matches>>
             [] OTHER ->
                  UNCHANGED <<computationBacklog, insertedAt, resolving,
                              resolves, matches, handed>>
    /\ IF drainI < Len(drainBuffer)
       THEN /\ drainI' = drainI + 1
            /\ UNCHANGED <<drainPc, drainBuffer, drainXi>>
       ELSE /\ drainPc' = "idle"
            /\ drainBuffer' = <<>>
            /\ drainI' = 0
            /\ drainXi' = 0
    /\ UNCHANGED <<now, emitted, stored, computationBacklogMu, sweepVars,
                   confirmations, epochVars>>
    /\ UNCHANGED <<routerVars, streamVars, runVars>>

\* ---- Backlog worker: syncOrderFragmentBacklog ----

ExpiresNever(com, t) == FALSE
Expired(com, t) == com.Timestamp + ComputationBacklogExpiry < t

\* The orders in which the range over the map may visit its keys.
IterationOrders(m) ==
    {o \in [1..Cardinality(DOMAIN m) -> DOMAIN m] :
        \A i, j \in DOMAIN o : i # j => o[i] # o[j]}

\* A first loop that empties the map: what it has not visited when it breaks
\* is gone.
RECURSIVE SweepWalkLosesRest(_, _, _, _)
SweepWalkLosesRest(order, backlog, t, buffer) ==
    IF order = <<>> THEN [buffer |-> buffer, rest |-> {}]
    ELSE LET com == backlog[Head(order)]
         IN  IF Expired(com, t)
             THEN SweepWalkLosesRest(Tail(order), backlog, t, buffer)
             ELSE IF Len(buffer) + 1 >= BufferSize
                  THEN [buffer |-> Append(buffer, com), rest |-> {}]
                  ELSE SweepWalkLosesRest(Tail(order), backlog, t,
                                          Append(buffer, com))
\* The first loop of the sweep over the keys in order: expired entries are
\* dropped, the others fill the buffer, and the loop breaks when it is full.
RECURSIVE SweepWalk(_, _, _, _)
SweepWalk(order, backlog, t, buffer) ==
    IF order = <<>> THEN [buffer |-> buffer, rest |-> {}]
    ELSE LET com == backlog[Head(order)]
         IN  IF Expired(com, t)
             THEN SweepWalk(Tail(order), backlog, t, buffer)
             ELSE IF Len(buffer) + 1 >= BufferSize
                  THEN [buffer |-> Append(buffer, com),
                        rest |-> {Tail(order)[i] : i \in DOMAIN Tail(order)}]
                  ELSE SweepWalk(Tail(order), backlog, t, Append(buffer, com))

\* The ticker fires; the hash is read under the read lock and the sweep is
\* called.
SweepReadEpoch ==
    /\ sweepPc = "idle"
    /\ ~xiMu
    /\ sweepXi' = xi.Hash
    /\ sweepPc' = "lock"
    /\ UNCHANGED <<sweepBuffer, sweepI, sweepStart>>
    /\ UNCHANGED <<now, emitted, stored, computationBacklog,
                   computationBacklogMu, drainVars, resolving, matches,
                   confirmations, insertedAt, resolves, handed, epochVars>>
    /\ UNCHANGED <<routerVars, streamVars, runVars>>

\* ome.computationBacklogMu.Lock() and the first loop.
SweepSelect(order) ==
    /\ sweepPc = "lock"
    /\ computationBacklogMu = "free"
    /\ computationBacklogMu' = "sweep"
    /\ LET walk == SweepWalk(order, computationBacklog, now, <<>>)
       IN  /\ sweepBuffer' = walk.buffer
           /\ computationBacklog' =
                 [id \in walk.rest |-> computationBacklog[id]]
    /\ sweepStart' = [backlog |-> computationBacklog, time |-> now]
    /\ sweepI' = 1
    /\ sweepPc' = "retry"
    /\ UNCHANGED sweepXi
    /\ UNCHANGED <<now, emitted, stored, drainVars, resolving, matches,
                   confirmations, insertedAt, resolves, handed, epochVars>>
    /\ UNCHANGED <<routerVars, streamVars, runVars>>

\* A retry that stamps the Computation it puts back with the time of the
\* sweep.
ReinsertedStamped(com) == [com EXCEPT !.Timestamp = now]

\* ome.computationBacklog[buffer[i].ID] = buffer[i]: the value put back is
\* the one the first loop copied into the buffer.
Reinserted(com) == com

\* One turn of the second loop.
SweepRetry ==
    /\ sweepPc = "retry"
    /\ sweepI <= Len(sweepBuffer)
    /\ LET com == sweepBuffer[sweepI]
       IN  IF FragmentsStored(com)
           THEN /\ resolving' = resolving \cup {com}
                /\ resolves' = Resolved(sweepXi, com)
                /\ handed' = HandedOn(com)
                /\ UNCHANGED computationBacklog
           ELSE /\ computationBacklog' =
                      MapSet(computationBacklog, com.ID, Reinserted(com))
                /\ UNCHANGED <<resolving, resolves, handed>>
    /\ sweepI' = sweepI + 1
    /\ UNCHANGED <<sweepPc, sweepBuffer, sweepXi, sweepStart>>
    /\ UNCHANGED <<now, emitted, stored, computationBacklogMu, drainVars,
                   matches, confirmations, insertedAt, epochVars>>
    /\ UNCHANGED <<routerVars, streamVars, runVars>>

\* The deferred ome.computationBacklogMu.Unlock(); the sweep returns.
SweepReturn ==
    /\ sweepPc = "retry"
    /\ sweepI > Len(sweepBuffer)
    /\ computationBacklogMu' = "free"
    /\ sweepPc' = "idle"
    /\ sweepBuffer' = <<>>
    /\ sweepI' = 0
    /\ sweepXi' = 0
    /\ sweepStart' = NoSweep
    /\ UNCHANGED <<now, emitted, stored, computationBacklog, drainVars,
                   resolving, matches, confirmations, insertedAt, resolves,
                   handed, epochVars>>
    /\ UNCHANGED <<routerVars, streamVars, runVars>>

\* Time passes.  A pass of a worker takes less than a tick of the clock.
Tick ==
    /\ now < MaxTime
    /\ drainPc = "idle"
    /\ sweepPc = "idle"
    /\ now' = now + 1
    /\ UNCHANGED <<emitted, stored, computationBacklog, computationBacklogMu,
                   drainVars, sweepVars, resolving, matches, confirmations,
                   insertedAt, resolves, handed, epochVars>>
    /\ UNCHANGED <<routerVars, streamVars, runVars>>

\* ---- Run: the worker goroutines and done ----

\* The variables of the Ome that the control flow of Run leaves alone.
passVars == <<now, emitted, stored, computationBacklog, computationBacklogMu,
              drainVars, sweepVars, resolving, matches, confirmations,
              insertedAt, resolves, handed, epochVars>>

\* The caller of Run closes done.
CloseOmeDone ==
    /\ ~omeDone
    /\ omeDone' = TRUE
    /\ UNCHANGED <<workerPc, tickPending, errs, errsClosed, errorsMade>>
    /\ UNCHANGED <<passVars, routerVars, streamVars>>

\* The caller of Run takes an error from errs.
ErrsReceive ==
    /\ errs > 0
    /\ errs' = errs - 1
    /\ UNCHANGED <<omeDone, workerPc, tickPending, errsClosed, errorsMade>>
    /\ UNCHANGED <<passVars, routerVars, streamVars>>

\* The deferred wg.Done() of worker w: when it is the last one, wg.Wait()
\* of the cleanup goroutine returns and errs is closed.
WaitGroupDone(w) == \A v \in Workers \ {w} : workerPc[v] = "returned"

\* Top of the loop of the orderbook worker and of the ranker worker: the
\* select on done with a default.
WorkerTop(w) ==
    /\ w \in {"orderbook", "ranker"}
    /\ workerPc[w] = "top"
    /\ IF omeDone
       THEN /\ workerPc' = [workerPc EXCEPT ![w] = "returned"]
            /\ errsClosed' = WaitGroupDone(w)
       ELSE /\ workerPc' = [workerPc EXCEPT ![w] = "sync"]
            /\ UNCHANGED errsClosed
    /\ UNCHANGED <<omeDone, tickPending, errs, errorsMade>>
    /\ UNCHANGED <<passVars, routerVars, streamVars>>

\* syncOrderbookToRanker: when orderbook.Sync fails the error is sent on errs
\* unless done is closed; then the worker continues or goes to sleep.
OrderbookSync(fails, late) ==
    /\ workerPc["orderbook"] = "sync"
    /\ IF fails
       THEN /\ errorsMade < MaxErrors
            /\ errorsMade' = errorsMade + 1
            /\ \/ omeDone /\ UNCHANGED errs
               \/ errs < ErrsCap /\ errs' = errs + 1
       ELSE UNCHANGED <<errs, errorsMade>>
    /\ workerPc' = [workerPc EXCEPT
                       !["orderbook"] = IF late THEN "top" ELSE "sleep"]
    /\ UNCHANGED <<omeDone, tickPending, errsClosed>>
    /\ UNCHANGED <<passVars, routerVars, streamVars>>

\* syncRanker returns wait; the worker continues or goes to sleep.
RankerSync(wait, late) ==
    /\ workerPc["ranker"] = "sync"
    /\ workerPc' = [workerPc EXCEPT
                       !["ranker"] = IF wait /\ ~late THEN "sleep" ELSE "top"]
    /\ UNCHANGED <<omeDone, tickPending, errs, errsClosed, errorsMade>>
    /\ UNCHANGED <<passVars, routerVars, streamVars>>

\* time.Sleep returns.
WorkerWake(w) ==
    /\ workerPc[w] = "sleep"
    /\ workerPc' = [workerPc EXCEPT ![w] = "top"]
    /\ UNCHANGED <<omeDone, tickPending, errs, errsClosed, errorsMade>>
    /\ UNCHANGED <<passVars, routerVars, streamVars>>

\* syncConfirmerToSettler: the select takes done and the worker returns.
ConfirmerDone ==
    /\ workerPc["confirmer"] = "select"
    /\ omeDone
    /\ workerPc' = [workerPc EXCEPT !["confirmer"] = "returned"]
    /\ errsClosed' = WaitGroupDone("confirmer")
    /\ UNCHANGED <<omeDone, tickPending, errs, errorsMade>>
    /\ UNCHANGED <<passVars, routerVars, streamVars>>

\* syncConfirmerToSettler: the select takes an error of the Confirmer.
ConfirmerError ==
    /\ workerPc["confirmer"] = "select"
    /\ errorsMade < MaxErrors
    /\ errorsMade' = errorsMade + 1
    /\ workerPc' = [workerPc EXCEPT !["confirmer"] = "forward"]
    /\ UNCHANGED <<omeDone, tickPending, errs, errsClosed>>
    /\ UNCHANGED <<passVars, routerVars, streamVars>>

\* syncConfirmerToSettler: the inner select sends the error on errs or takes
\* done.
ConfirmerForward ==
    /\ workerPc["confirmer"] = "forward"
    /\ \/ omeDone /\ UNCHANGED errs
       \/ errs < ErrsCap /\ errs' = errs + 1
    /\ workerPc' = [workerPc EXCEPT !["confirmer"] = "select"]
    /\ UNCHANGED <<omeDone, tickPending, errsClosed, errorsMade>>
    /\ UNCHANGED <<passVars, routerVars, streamVars>>

\* The ticker of the backlog worker fires; a tick that is not taken is
\* dropped.
TickerFires ==
    /\ ~tickPending
    /\ tickPending' = TRUE
    /\ UNCHANGED <<omeDone, workerPc, errs, errsClosed, errorsMade>>
    /\ UNCHANGED <<passVars, routerVars, streamVars>>

\* Backlog worker: the select takes done or a tick; neither case returns.
BacklogSelect ==
    /\ workerPc["backlog"] = "select"
    /\ \/ omeDone /\ UNCHANGED tickPending
       \/ tickPending /\ tickPending' = FALSE
    /\ workerPc' = [workerPc EXCEPT !["backlog"] = "read"]
    /\ UNCHANGED <<omeDone, errs, errsClosed, errorsMade>>
    /\ UNCHANGED <<passVars, routerVars, streamVars>>

\* Backlog worker: the hash is read under the read lock.
BacklogRead ==
    /\ workerPc["backlog"] = "read"
    /\ ~xiMu
    /\ workerPc' = [workerPc EXCEPT !["backlog"] = "sweep"]
    /\ UNCHANGED <<omeDone, tickPending, errs, errsClosed, errorsMade>>
    /\ UNCHANGED <<passVars, routerVars, streamVars>>

\* Backlog worker: syncOrderFragmentBacklog returns and the loop goes round.
BacklogSweep ==
    /\ workerPc["backlog"] = "sweep"
    /\ workerPc' = [workerPc EXCEPT !["backlog"] = "select"]
    /\ UNCHANGED <<omeDone, tickPending, errs, errsClosed, errorsMade>>
    /\ UNCHANGED <<passVars, routerVars, streamVars>>

\* The control flow of Run; each pass of a worker is one step.
NextShutdown ==
    \/ CloseOmeDone
    \/ ErrsReceive
    \/ \E w \in {"orderbook", "ranker"} : WorkerTop(w)
    \/ \E fails, late \in BOOLEAN : OrderbookSync(fails, late)
    \/ \E wait, late \in BOOLEAN : RankerSync(wait, late)
    \/ \E w \in {"orderbook", "ranker"} : WorkerWake(w)
    \/ ConfirmerDone
    \/ ConfirmerError
    \/ ConfirmerForward
    \/ TickerFires
    \/ BacklogSelect
    \/ BacklogRead
    \/ BacklogSweep

\* What ranker.Computations may give when syncRanker calls it: Computations
\* of all not given before, as many as the buffer takes.  (Nothing while a
\* pass of syncRanker is under way.)
FetchSets(all) ==
    IF drainPc = "idle"
    THEN {ids \in SUBSET (all \ emitted) :
              ids # {} /\ Cardinality(ids) <= BufferSize}
    ELSE {}

\* The same where the Computations are numbered in the order the Ranker gives
\* them: a call gives the next one, two, ... up to the length of the buffer.
FetchRuns(all) ==
    {ids \in FetchSets(all) :
         \A i \in ids, j \in all \ emitted : j < i => j \in ids}

\* The orders the range over the backlog may take when the sweep has come to
\* its lock.
SweepOrders ==
    IF sweepPc = "lock" THEN IterationOrders(computationBacklog) ELSE {}

\* The workers of Run in one epoch; the clock stands.  The Ranker gives
\* Computations in any State.
NextPipeline ==
    \/ \E ids \in FetchSets(PipelineComIDs) :
          \E states \in [ids -> ComputationStates] :
             DrainFetch(ids, states, [id \in ids |-> now])
    \/ DrainReadEpoch
    \/ DrainDispatch
    \/ SweepReadEpoch
    \/ \E order \in SweepOrders : SweepSelect(order)
    \/ SweepRetry
    \/ SweepReturn
    \/ \E o \in PipelineOrders : FragmentArrives(o)
    \/ \E com \in resolving : \E match \in BOOLEAN : MatcherFinish(com, match)
    \/ \E state \in {ComputationStateAccepted, ComputationStateRejected} :
          ConfirmerConfirm(state)
    \/ SettleConfirmation

\* The workers of Run and the calls of OnChangeEpoch; the clock stands.  The
\* Ranker gives new (Nil) Computations.
NextEpoch ==
    \/ \E ids \in FetchRuns(PipelineComIDs) :
          DrainFetch(ids, [id \in ids |-> ComputationStateNil],
                     [id \in ids |-> now])
    \/ DrainReadEpoch
    \/ DrainDispatch
    \/ SweepReadEpoch
    \/ \E order \in SweepOrders : SweepSelect(order)
    \/ SweepRetry
    \/ SweepReturn
    \/ \E o \in PipelineOrders : FragmentArrives(o)
    \/ \E com \in resolving : MatcherFinish(com, TRUE)
    \/ ConfirmerConfirm(ComputationStateAccepted)
    \/ SettleConfirmation
    \/ ChangeEpochLock(EpochDarknodes(epochCalls + 1))
    \/ ChangeEpochDisconnect
    \/ ChangeEpochAssign
    \/ ChangeEpochConnect
    \/ ChangeEpochReturn

\* The ranker worker and the backlog worker while time passes; the Ranker
\* gives new (Nil) Computations stamped with the time they are given at.
NextBacklog ==
    \/ \E ids \in FetchRuns(ComIDs) :
          DrainFetch(ids, [id \in ids |-> ComputationStateNil],
                     [id \in ids |-> now])
    \/ DrainReadEpoch
    \/ DrainDispatch
    \/ SweepReadEpoch
    \/ \E order \in SweepOrders : SweepSelect(order)
    \/ SweepRetry
    \/ SweepReturn
    \/ \E o \in Orders : FragmentArrives(o)
    \/ Tick

(***************************************************************************)
(* syncConfirmerToSettler, between the two channels of the Confirmer, the  *)
(* Settler and the errs channel of Run.                                    *)
(***************************************************************************)
notStlVars == <<arcVars, fanVars, splitVars, streamVars, omeVars, baseVars,
                cmpVars, obVars, hypVars, wsVars>>

\* The cases of the select of syncConfirmerToSettler.
SettlerCases == {"done", "confirmation", "confirmationsClosed", "err",
                 "errsClosed"}

\* The Confirmer sends its next Computation on confirmations and waits for
\* the receive.
ConfirmerOffer ==
    /\ stOffer = 0
    /\ "confirmations" \notin stClosed
    /\ stMade < MaxConfirmations
    /\ settler' = [settler EXCEPT !.offer = stMade + 1, !.made = @ + 1]
    /\ UNCHANGED notStlVars

\* The Confirmer sends an error on confirmationErrs and waits for the receive.
ConfirmerOfferError ==
    /\ ~stErrOffer
    /\ "errs" \notin stClosed
    /\ stErrsMade < MaxErrors
    /\ settler' = [settler EXCEPT !.errOffer = TRUE, !.errsMade = @ + 1]
    /\ UNCHANGED notStlVars

\* The Confirmer closes one of its channels, on which it is not sending.
ConfirmerClose(ch) ==
    /\ ch \notin stClosed
    /\ IF ch = "errs" THEN ~stErrOffer ELSE stOffer = 0
    /\ settler' = [settler EXCEPT !.closed = @ \cup {ch}]
    /\ UNCHANGED notStlVars

\* OnChangeEpoch: ome.xi is assigned under the write lock.
SettlerChangeEpoch ==
    /\ stHash < MaxEpochs
    /\ settler' = [settler EXCEPT
                      !.hash = @ + 1,
                      !.seen = IF stPc \in {"rlock", "settle"}
                               THEN @ \cup {stHash + 1} ELSE @]
    /\ UNCHANGED notStlVars

\* The caller of Run closes done.
SettlerCloseDone ==
    /\ ~stDone
    /\ settler' = [settler EXCEPT !.done = TRUE]
    /\ UNCHANGED notStlVars

\* The select of the loop takes one of its cases that are ready: done
\* returns; a confirmation is received; the closed confirmations returns; an
\* error is received; the closed confirmationErrs returns.
SettlerSelect(case) ==
    /\ stPc = "select"
    /\ \/ /\ case = "done"
          /\ stDone
          /\ settler' = [settler EXCEPT !.pc = "returned"]
       \/ /\ case = "confirmation"
          /\ stOffer # 0
          /\ settler' = [settler EXCEPT !.com = stOffer,
                                        !.offer = 0,
                                        !.seen = {stHash},
                                        !.pc = "rlock"]
       \/ /\ case = "confirmationsClosed"
          /\ "confirmations" \in stClosed
          /\ settler' = [settler EXCEPT !.pc = "returned"]
       \/ /\ case = "err"
          /\ stErrOffer
          /\ settler' = [settler EXCEPT !.errOffer = FALSE, !.pc = "forward"]
       \/ /\ case = "errsClosed"
          /\ "errs" \in stClosed
          /\ settler' = [settler EXCEPT !.pc = "returned"]
    /\ UNCHANGED notStlVars

\* ome.xiMu.RLock(); xi := ome.xi.Hash; ome.xiMu.RUnlock()
SettlerReadEpoch ==
    /\ stPc = "rlock"
    /\ settler' = [settler EXCEPT !.xi = stHash, !.pc = "settle"]
    /\ UNCHANGED notStlVars

\* ome.sendComputationToSettler(xi, confirmation): settler.Settle(xi, com),
\* whose error is logged.
SettlerSettle ==
    /\ stPc = "settle"
    /\ settler' = [settler EXCEPT
                      !.calls = Append(@, [com |-> stCom, hash |-> stXi,
                                           seen |-> stSeen]),
                      !.com = 0,
                      !.xi = 0,
                      !.seen = {},
                      !.pc = "select"]
    /\ UNCHANGED notStlVars

\* The inner select: done, or the send of the error on errs, which has room
\* for ErrsCap errors.
SettlerForward ==
    /\ stPc = "forward"
    /\ \/ /\ stDone
          /\ settler' = [settler EXCEPT !.pc = "select"]
       \/ /\ stErrs < ErrsCap
          /\ settler' = [settler EXCEPT !.errs = @ + 1, !.sent = @ + 1,
                                        !.pc = "select"]
    /\ UNCHANGED notStlVars

\* The reader of the errs channel of Run takes an error.
SettlerErrsReceive ==
    /\ stErrs > 0
    /\ settler' = [settler EXCEPT !.errs = @ - 1]
    /\ UNCHANGED notStlVars

NextSettler ==
    \/ ConfirmerOffer
    \/ ConfirmerOfferError
    \/ \E ch \in {"confirmations", "errs"} : ConfirmerClose(ch)
    \/ SettlerChangeEpoch
    \/ SettlerCloseDone
    \/ \E case \in SettlerCases : SettlerSelect(case)
    \/ SettlerReadEpoch
    \/ SettlerSettle
    \/ SettlerForward
    \/ SettlerErrsReceive

(***************************************************************************)
(* syncOrderbookToRanker: one pass of the orderbook worker.                *)
(***************************************************************************)
notObVars == <<arcVars, fanVars, splitVars, streamVars, omeVars, baseVars,
               cmpVars, stlVars, hypVars, wsVars>>

\* The values of order.Status the switch tells apart (Other is any status
\* that is not Open, Canceled or Confirmed) and of order.Parity.
OrderStatuses == {"Open", "Canceled", "Confirmed", "Other"}
OrderParities == {"Buy", "Sell"}
ChangeOrders == {1, 2}

\* The changes an Orderbook can report and the changesets of n changes that
\* Sync can return when it is called.
Changes ==
    [OrderID : ChangeOrders, OrderStatus : OrderStatuses,
     OrderParity : OrderParities, OrderPriority : Priorities]
Changesets(n) == IF obPc = "idle" THEN [1..n -> Changes] ELSE {}

\* A switch that removes canceled orders only.
RankerCallKeepsConfirmed(change) ==
    IF change.OrderStatus = "Open"
    THEN IF change.OrderParity = "Buy"
         THEN <<[fn |-> "InsertBuy", Priority |-> change.OrderPriority,
                 Order |-> change.OrderID]>>
         ELSE <<[fn |-> "InsertSell", Priority |-> change.OrderPriority,
                 Order |-> change.OrderID]>>
    ELSE IF change.OrderStatus = "Canceled"
         THEN <<[fn |-> "Remove", Priority |-> 0, Order |-> change.OrderID]>>
         ELSE <<>>

\* The body of the range: the switch on change.OrderStatus and the call it
\* makes on the Ranker, if any.
RankerCall(change) ==
    IF change.OrderStatus = "Open"
    THEN IF change.OrderParity = "Buy"
         THEN <<[fn |-> "InsertBuy", Priority |-> change.OrderPriority,
                 Order |-> change.OrderID]>>
         ELSE <<[fn |-> "InsertSell", Priority |-> change.OrderPriority,
                 Order |-> change.OrderID]>>
    ELSE IF change.OrderStatus \in {"Canceled", "Confirmed"}
         THEN <<[fn |-> "Remove", Priority |-> 0, Order |-> change.OrderID]>>
         ELSE <<>>

\* changeset, err := ome.orderbook.Sync() with a nil error.
OrderbookSynced(changeset) ==
    /\ obPc = "idle"
    /\ orderbook' = [orderbook EXCEPT !.changeset = changeset, !.i = 1,
                                      !.pc = "range"]
    /\ UNCHANGED notObVars

\* ome.orderbook.Sync() returns an error: the function comes to its select.
OrderbookSyncFailed ==
    /\ obPc = "idle"
    /\ orderbook' = [orderbook EXCEPT !.failed = TRUE, !.pc = "select"]
    /\ UNCHANGED notObVars

\* The select: done, or the send of the error on errs; both return.
OrderbookSendError ==
    /\ obPc = "select"
    /\ \/ /\ obDone
          /\ orderbook' = [orderbook EXCEPT !.pc = "returned"]
       \/ /\ obErrs < ErrsCap
          /\ orderbook' = [orderbook EXCEPT !.errs = @ + 1,
                                            !.pc = "returned"]
    /\ UNCHANGED notObVars

\* One turn of the range over the changeset.
OrderbookChange ==
    /\ obPc = "range"
    /\ obI <= Len(obChangeset)
    /\ orderbook' = [orderbook EXCEPT
                        !.calls = @ \o RankerCall(obChangeset[obI]),
                        !.i = @ + 1]
    /\ UNCHANGED notObVars

\* The range is over and the function returns.
OrderbookReturn ==
    /\ obPc = "range"
    /\ obI > Len(obChangeset)
    /\ orderbook' = [orderbook EXCEPT !.pc = "returned"]
    /\ UNCHANGED notObVars

\* The caller of Run closes done.
OrderbookCloseDone ==
    /\ ~obDone
    /\ obPc \in {"idle", "select"}
    /\ orderbook' = [orderbook EXCEPT !.done = TRUE]
    /\ UNCHANGED notObVars

NextOrderbook ==
    \/ \E n \in 0..MaxChanges :
          \E changeset \in Changesets(n) : OrderbookSynced(changeset)
    \/ OrderbookSyncFailed
    \/ OrderbookSendError
    \/ OrderbookChange
    \/ OrderbookReturn
    \/ OrderbookCloseDone

(***************************************************************************)
(* hyper.ProcessProposal: the goroutine between proposalChIn and the three *)
(* channels it returns.                                                    *)
(***************************************************************************)
notHypVars == <<arcVars, fanVars, splitVars, streamVars, omeVars, baseVars,
                cmpVars, stlVars, obVars, wsVars>>

\* The k-th Proposal sent; valid is what validator.ValidateProposal says of
\* it.
ProposalOf(k, valid) ==
    [Block |-> k, Rank |-> k + 1, Height |-> k + 2, valid |-> valid]

\* A Prepare that takes the Height for the Rank.
PrepareWithHeightAsRank(proposal) ==
    [Signature |-> "validator", Block |-> proposal.Block,
     Rank |-> proposal.Height, Height |-> proposal.Height]

\* Prepare{validator.Sign(), proposal.Block, proposal.Rank, proposal.Height}
PrepareOf(proposal) ==
    [Signature |-> "validator", Block |-> proposal.Block,
     Rank |-> proposal.Rank, Height |-> proposal.Height]

\* Fault{proposal.Rank, proposal.Height, validator.Sign()}
FaultOf(proposal) ==
    [Rank |-> proposal.Rank, Height |-> proposal.Height,
     Signature |-> "validator"]

\* The position at which the goroutine sends on each channel.
HyperSendPc(c) ==
    IF c = "prepareCh" THEN "prepare" ELSE IF c = "faultCh" THEN "fault"
    ELSE "err"

\* What the goroutine sends from its position, and where it goes next.
HyperMessage ==
    CASE hyPc = "prepare" -> PrepareOf(hyReceived[Len(hyReceived)])
      [] hyPc = "fault" -> FaultOf(hyReceived[Len(hyReceived)])
      [] OTHER -> "context canceled"
HyperAfterSend == IF hyPc = "err" THEN "returned" ELSE "select"

\* A send of the goroutine on a channel with room in its buffer; when the
\* send is the one of ctx.Err() the goroutine returns and the deferred calls
\* close the three channels.
HyperSend(c) ==
    /\ hyPc = HyperSendPc(c)
    /\ Len(hyCh[c]) < hyThreshold
    /\ hyper' = [hyper EXCEPT !.ch[c] = Append(@, HyperMessage),
                              !.sent[c] = Append(@, HyperMessage),
                              !.pc = HyperAfterSend,
                              !.closed = (hyPc = "err")]

\* ProcessProposal(ctx, proposalChIn, validator): the three channels are
\* made with room for validator.Threshold() messages and the goroutine
\* starts.
ProcessProposal(threshold) ==
    /\ hyPc = "idle"
    /\ hyper' = [hyper EXCEPT !.threshold = threshold, !.pc = "select"]
    /\ UNCHANGED notHypVars

\* The producer sends its next Proposal on proposalChIn.
ProposalSend(valid) ==
    /\ hyPc # "idle"
    /\ hyInput = NoProposal
    /\ ~hyInClosed
    /\ hyMade < MaxProposals
    /\ hyper' = [hyper EXCEPT !.input = ProposalOf(hyMade + 1, valid),
                              !.made = @ + 1]
    /\ UNCHANGED notHypVars

\* The producer closes proposalChIn.
ProposalClose ==
    /\ hyPc # "idle"
    /\ hyInput = NoProposal
    /\ ~hyInClosed
    /\ hyper' = [hyper EXCEPT !.inClosed = TRUE]
    /\ UNCHANGED notHypVars

\* ctx is cancelled.
HyperCancel ==
    /\ hyPc # "idle"
    /\ ~hyCtxDone
    /\ hyper' = [hyper EXCEPT !.ctxDone = TRUE]
    /\ UNCHANGED notHypVars

\* The select of the loop: ctx.Done() goes to the send of ctx.Err(); a
\* Proposal is received and validated; the closed proposalChIn returns, and
\* the deferred calls close the three channels.
HyperSelect(case) ==
    /\ hyPc = "select"
    /\ \/ /\ case = "ctx"
          /\ hyCtxDone
          /\ hyper' = [hyper EXCEPT !.pc = "err"]
       \/ /\ case = "proposal"
          /\ hyInput # NoProposal
          /\ hyper' = [hyper EXCEPT
                          !.received = Append(@, hyInput),
                          !.input = NoProposal,
                          !.pc = IF hyInput.valid THEN "prepare"
                                 ELSE "fault"]
       \/ /\ case = "closed"
          /\ hyInClosed
          /\ hyper' = [hyper EXCEPT !.pc = "returned", !.closed = TRUE]
    /\ UNCHANGED notHypVars

\* prepareCh <- prepare
HyperPrepare ==
    /\ HyperSend("prepareCh")
    /\ UNCHANGED notHypVars

\* The select of the else branch: ctx.Done() goes to the send of ctx.Err()
\* and the Fault is given up, or faultCh <- fault.
HyperFault(case) ==
    /\ hyPc = "fault"
    /\ \/ /\ case = "ctx"
          /\ hyCtxDone
          /\ hyper' = [hyper EXCEPT !.dropped = Len(hyReceived),
                                    !.pc = "err"]
       \/ /\ case = "fault"
          /\ HyperSend("faultCh")
    /\ UNCHANGED notHypVars

\* errCh <- ctx.Err(); return
HyperErr ==
    /\ HyperSend("errCh")
    /\ UNCHANGED notHypVars

\* A reader receives from one of the three channels: the oldest message of
\* the buffer, or, when the channel has no buffer, the message the goroutine
\* is sending.
HyperReceive(c) ==
    /\ IF hyThreshold = 0
       THEN /\ hyPc = HyperSendPc(c)
            /\ hyper' = [hyper EXCEPT !.sent[c] = Append(@, HyperMessage),
                                      !.pc = HyperAfterSend,
                                      !.closed = (hyPc = "err")]
       ELSE /\ hyCh[c] # <<>>
            /\ hyper' = [hyper EXCEPT !.ch[c] = Tail(@)]
    /\ UNCHANGED notHypVars

NextHyper ==
    \/ \E threshold \in 0..MaxThreshold : ProcessProposal(threshold)
    \/ \E valid \in BOOLEAN : ProposalSend(valid)
    \/ ProposalClose
    \/ HyperCancel
    \/ \E case \in {"ctx", "proposal", "closed"} : HyperSelect(case)
    \/ HyperPrepare
    \/ \E case \in {"ctx", "fault"} : HyperFault(case)
    \/ HyperErr
    \/ \E c \in HyperChannels : HyperReceive(c)

(***************************************************************************)
(* logger.WebSocketPlugin: Info, Error, Warn and Usage, and the loop of    *)
(* logHandler that empties the four channels.                              *)
(***************************************************************************)
PluginCalls == 1..MaxPluginCalls

notWsVars == <<arcVars, fanVars, splitVars, streamVars, omeVars, baseVars,
               cmpVars, stlVars, obVars, hypVars>>

\* A goroutine calls Info, Error, Warn or Usage and comes to
\* plugin.Enter(nil); an Info call may have the tag TagRegister.  Calls are
\* numbered in the order they are made.
PluginCall(t, method, register) ==
    /\ wsPc[t] = "idle"
    /\ IF t = 1 THEN TRUE ELSE wsPc[t - 1] # "idle"
    /\ register => method = "Info"
    /\ plugin' = [plugin EXCEPT
                     !.op[t] = [method |-> method, register |-> register,
                                event |-> 0],
                     !.pc[t] = "enter"]
    /\ UNCHANGED notWsVars

\* plugin.Enter(nil): the call waits until no other call is inside the
\* guarded object; it then makes its event.
PluginEnter(t) ==
    /\ wsPc[t] = "enter"
    /\ wsGuard = 0
    /\ plugin' = [plugin EXCEPT !.guard = t,
                                !.events = @ + 1,
                                !.op[t].event = wsEvents + 1,
                                !.pc[t] = "len"]
    /\ UNCHANGED notWsVars

\* if tag == TagRegister: the message is kept and the call returns; else
\* if len(channel) == 1.
PluginLen(t) ==
    /\ wsPc[t] = "len"
    /\ plugin' =
          IF wsOp[t].register
          THEN [plugin EXCEPT !.registration = wsOp[t].event,
                              !.pc[t] = "exit"]
          ELSE [plugin EXCEPT
                   !.pc[t] = IF Len(wsCh[wsOp[t].method]) = 1
                             THEN "discard" ELSE "send"]
    /\ UNCHANGED notWsVars

\* <-channel: the receive that discards the oldest entry; it waits while the
\* channel is empty.
PluginDiscard(t) ==
    /\ wsPc[t] = "discard"
    /\ wsCh[wsOp[t].method] # <<>>
    /\ plugin' = [plugin EXCEPT !.ch[wsOp[t].method] = Tail(@),
                                !.pc[t] = "send"]
    /\ UNCHANGED notWsVars

\* channel <- event: the send waits while the channel is full.
PluginSend(t) ==
    /\ wsPc[t] = "send"
    /\ Len(wsCh[wsOp[t].method]) < 1
    /\ plugin' = [plugin EXCEPT
                     !.ch[wsOp[t].method] = Append(@, wsOp[t].event),
                     !.last[wsOp[t].method] = wsOp[t].event,
                     !.pc[t] = "exit"]
    /\ UNCHANGED notWsVars

\* The deferred plugin.Exit(); the call returns.
PluginExit(t) ==
    /\ wsPc[t] = "exit"
    /\ plugin' = [plugin EXCEPT !.guard = 0, !.pc[t] = "returned"]
    /\ UNCHANGED notWsVars

\* The select of the loop of a logHandler takes the entry of a channel and
\* writes it to its connection.
LogHandlerReceive(c) ==
    /\ wsCh[c] # <<>>
    /\ plugin' = [plugin EXCEPT !.ch[c] = Tail(@)]
    /\ UNCHANGED notWsVars

NextPlugin ==
    \/ \E t \in PluginCalls, method \in PluginChannels, register \in BOOLEAN :
          PluginCall(t, method, register)
    \/ \E t \in PluginCalls : PluginEnter(t)
    \/ \E t \in PluginCalls : PluginLen(t)
    \/ \E t \in PluginCalls : PluginDiscard(t)
    \/ \E t \in PluginCalls : PluginSend(t)
    \/ \E t \in PluginCalls : PluginExit(t)
    \/ \E c \in PluginChannels : LogHandlerReceive(c)

\* A subsystem that a specification leaves alone rests in one fixed initial
\* state.
RestRouter == InitRouter /\ address = <<0, 1>> /\ cpCap = MaxConnections
RestStream == InitStream /\ streamNodes = {<<0, 1>>, <<0, 2>>}

RestOme == InitOme

Init == InitRouter /\ InitStream /\ InitOme

InitSpecRouter == InitRouter /\ cpCap = MaxConnections /\ RestStream /\ RestOme
InitSpecStream == RestRouter /\ InitStream /\ RestOme
InitSpecOme == RestRouter /\ RestStream /\ InitOme

SpecRouter == InitSpecRouter /\ [][NextRouter]_vars

SpecStream == InitSpecStream /\ [][NextStream]_vars

SpecPipeline == InitSpecOme /\ [][NextPipeline]_vars

SpecEpoch == InitSpecOme /\ [][NextEpoch]_vars

SpecBacklog == InitSpecOme /\ [][NextBacklog]_vars

InitSpecSplitter == RestRouter /\ RestStream /\ RestOme

SpecSplitter == InitSpecSplitter /\ [][NextSplitter]_vars

InitSpecBroadcaster == RestRouter /\ RestStream /\ RestOme

SpecBroadcaster == InitSpecBroadcaster /\ [][NextBroadcaster]_vars

SpecBroadcasts == InitSpecBroadcaster /\ [][NextBroadcasts]_vars

\* The goroutines of Broadcast are scheduled.
FairSpecBroadcasts ==
    /\ SpecBroadcasts
    /\ \A b \in Broadcasts :
          WF_vars(BroadcastReturn(b)) /\ WF_vars(BroadcastNext(b))

InitSpecRanker == RestRouter /\ RestStream /\ RestOme

SpecRanker == InitSpecRanker /\ [][NextRanker]_vars

InitSpecComputation == RestRouter /\ RestStream /\ RestOme

SpecComputation == InitSpecComputation /\ [][NextComputation]_vars

InitSpecLogger == RestRouter /\ RestStream /\ RestOme

SpecLogger == InitSpecLogger /\ [][NextLogger]_vars

\* Every goroutine that can take a step takes it.
FairSpecLogger ==
    /\ SpecLogger
    /\ \A t \in LogCallers :
           /\ WF_vars(DefaultLoggerLock(t))
           /\ WF_vars(SetDefaultLoggerBody(t))
           /\ WF_vars(LogInfoBody(t))
           /\ WF_vars(DefaultLoggerUnlock(t))

InitSpecSafeStream == RestRouter /\ RestStream /\ RestOme

SpecSafeStream == InitSpecSafeStream /\ [][NextSafeStream]_vars

\* The goroutines that call Send, Recv and Close are scheduled and the
\* transport completes a Send; when the peer sends the message a Recv waits
\* for is up to the peer.
FairSpecSafeStream ==
    /\ SpecSafeStream
    /\ \A t \in StreamUsers :
           /\ WF_vars(SendLock(t))
           /\ WF_vars(SendReturn(t))
           /\ WF_vars(RecvLock(t))
           /\ WF_vars(CloseSendLock(t))
           /\ WF_vars(CloseRecvLock(t))
           /\ WF_vars(CloseReturn(t))

InitSpecService == RestRouter /\ RestStream /\ RestOme

SpecService == InitSpecService /\ [][NextService]_vars

\* Connect and Listen calls take the steps they can take; whether a context
\* is done and whether a stream is closed is up to the callers.
FairSpecService ==
    /\ SpecService
    /\ \A k \in Connects :
           /\ WF_vars(ConnectSetup(k))
           /\ WF_vars(ConnectSend(k))
           /\ WF_vars(ConnectReturn(k))
    /\ \A l \in Listens : WF_vars(ListenRecv(l))

SpecFanout == InitSpecRouter /\ [][NextFanout]_vars

\* The goroutines of OrderFragments are scheduled.
FairSpecFanout ==
    /\ SpecFanout
    /\ \A s \in Sinks :
          WF_vars(OrderFragmentsSubscribe(s)) /\ WF_vars(OrderFragmentsReturn(s))


InitSpecCompute == InitRouter /\ address = <<0, 1>> /\ RestStream /\ RestOme

SpecCompute == InitSpecCompute /\ [][NextCompute]_vars
InitSpecSettler == RestRouter /\ RestStream /\ RestOme

SpecSettler == InitSpecSettler /\ [][NextSettler]_vars

\* The goroutine of syncConfirmerToSettler is scheduled, and the errs channel
\* of Run is read.
FairSpecSettler ==
    /\ SpecSettler
    /\ WF_vars(\E case \in SettlerCases : SettlerSelect(case))
    /\ WF_vars(SettlerReadEpoch)
    /\ WF_vars(SettlerSettle)
    /\ WF_vars(SettlerForward)
    /\ WF_vars(SettlerErrsReceive)

InitSpecOrderbook == RestRouter /\ RestStream /\ RestOme

SpecOrderbook == InitSpecOrderbook /\ [][NextOrderbook]_vars

InitSpecHyper == RestRouter /\ RestStream /\ RestOme

SpecHyper == InitSpecHyper /\ [][NextHyper]_vars

\* The goroutine of ProcessProposal is scheduled; nothing is said of the
\* readers of its channels.
FairSpecHyper ==
    /\ SpecHyper
    /\ WF_vars(\E case \in {"ctx", "proposal", "closed"} : HyperSelect(case))
    /\ WF_vars(HyperPrepare)
    /\ WF_vars(\E case \in {"ctx", "fault"} : HyperFault(case))
    /\ WF_vars(HyperErr)

InitSpecPlugin == RestRouter /\ RestStream /\ RestOme

SpecPlugin == InitSpecPlugin /\ [][NextPlugin]_vars

\* The goroutines of the callers are scheduled, and so is logHandler.
FairSpecPlugin ==
    /\ SpecPlugin
    /\ \A t \in PluginCalls :
           /\ WF_vars(PluginEnter(t))
           /\ WF_vars(PluginLen(t))
           /\ WF_vars(PluginDiscard(t))
           /\ WF_vars(PluginSend(t))
           /\ WF_vars(PluginExit(t))
    /\ \A c \in PluginChannels : WF_vars(LogHandlerReceive(c))

SpecShutdown == InitSpecOme /\ [][NextShutdown]_vars

\* The goroutines of Run are scheduled, and a sleep ends.
FairSpecShutdown ==
    /\ SpecShutdown
    /\ \A w \in {"orderbook", "ranker"} :
          WF_vars(WorkerTop(w)) /\ WF_vars(WorkerWake(w))
    /\ WF_vars(\E fails, late \in BOOLEAN : OrderbookSync(fails, late))
    /\ WF_vars(\E wait, late \in BOOLEAN : RankerSync(wait, late))
    /\ WF_vars(ConfirmerDone)
    /\ WF_vars(ConfirmerForward)
    /\ WF_vars(BacklogSelect)
    /\ WF_vars(BacklogRead)
    /\ WF_vars(BacklogSweep)

\* The goroutines of the recycler and of the mocks are scheduled.
FairSpecStream ==
    /\ SpecStream
    /\ \A h \in Holders : WF_vars(RecyclerRelease(h))
    /\ \A n \in Addrs, i \in StreamIndexes :
          WF_vars(MockClientReap(n, i)) /\ WF_vars(MockServerReap(n, i))

(***************************************************************************)
(* Properties of the Ome                                                   *)
(***************************************************************************)

\* The second loop of the running sweep is over: the sweep is finishing.
SweepFinished == sweepPc = "retry" /\ sweepI > Len(sweepBuffer)

\* The entries that were in the backlog when the running sweep started and
\* whose deadline (insertion time plus ComputationBacklogExpiry) was then over.
PastDeadline ==
    {id \in DOMAIN sweepStart.backlog :
        insertedAt[id] + ComputationBacklogExpiry < sweepStart.time}

\* The entries that had not expired when the running sweep started.
UnexpiredAtStart ==
    {id \in DOMAIN sweepStart.backlog :
        sweepStart.backlog[id].Timestamp + ComputationBacklogExpiry
            >= sweepStart.time}

\* C7, as stated: a Computation put in the backlog at t0 and still there after
\* t0 + ComputationBacklogExpiry is absent from the backlog when a sweep that
\* started after that deadline finishes, whatever else the backlog holds.
C7_BacklogExpiry ==
    SweepFinished =>
        \A id \in PastDeadline : id \notin DOMAIN computationBacklog

\* C7, amended: the same, provided fewer unexpired entries than the buffer has
\* slots were in the backlog when the sweep started, so that the first loop
\* of the sweep visits every entry before it breaks.
C7_BacklogExpiryWithinBuffer ==
    (SweepFinished /\ Cardinality(UnexpiredAtStart) < BufferSize) =>
        \A id \in PastDeadline : id \notin DOMAIN computationBacklog

\* A sweep finishes that started past the deadline of one entry, with an
\* unexpired entry next to it; the unexpired one is back in the backlog.
C7_Witness ==
    /\ SweepFinished
    /\ PastDeadline # {}
    /\ Cardinality(UnexpiredAtStart) = BufferSize - 1
    /\ UnexpiredAtStart # {}
    /\ DOMAIN computationBacklog = UnexpiredAtStart

\* C8: every Matcher.Resolve started after a call of OnChangeEpoch returned is
\* made with the hash of the epoch of the last call that had returned.
C8_EpochCutover ==
    \A r \in resolves : ~r.stale

\* The ranker worker makes one turn of its loop.
DrainTurns == drainPc = "dispatch" /\ drainI' # drainI

DrainFinishes == drainPc = "dispatch" /\ drainPc' = "idle"

\* The Computations for which the Matcher has been invoked.
ResolvedIDs == {r.ID : r \in resolves}

\* C12, as stated: a Nil Computation of a drain pass for which the Storer
\* lacked a fragment is in the backlog under its ID, and the Matcher has not
\* been invoked for it, when the pass finishes.
C12_MissingFragment ==
    [][DrainFinishes =>
        \A i \in DOMAIN drainBuffer :
            insertedAt'[drainBuffer[i].ID] >= 0 =>
                /\ drainBuffer[i].ID \in DOMAIN computationBacklog'
                /\ computationBacklog'[drainBuffer[i].ID] = drainBuffer[i]
                /\ drainBuffer[i].ID \notin ResolvedIDs']_vars

\* C12, amended: in the turn of the drain pass that deals with a Nil
\* Computation, if the Storer lacks the buy or the sell fragment the Matcher
\* is not invoked and the Computation is in the backlog under its ID when the
\* turn ends; otherwise the Matcher is invoked and the backlog is left alone.
\* Whoever invokes the Matcher, both fragments are stored at that time.
C12_MissingFragmentInTurn ==
    /\ [][(DrainTurns /\ drainBuffer[drainI].State = ComputationStateNil) =>
            LET com == drainBuffer[drainI]
            IN  IF com.Buy \in stored /\ com.Sell \in stored
                THEN /\ resolving' = resolving \cup {com}
                     /\ com.ID \in ResolvedIDs'
                     /\ computationBacklog' = computationBacklog
                ELSE /\ resolving' = resolving
                     /\ resolves' = resolves
                     /\ com.ID \in DOMAIN computationBacklog'
                     /\ computationBacklog'[com.ID] = com]_vars
    /\ [][\A com \in resolving' \ resolving :
            com.Buy \in stored /\ com.Sell \in stored]_vars

\* The ranker worker has put a Computation whose sell fragment is missing
\* in the backlog and the Matcher has not been invoked for it, while the
\* Matcher has been invoked for another one.
C12_Witness ==
    /\ \E id \in DOMAIN computationBacklog :
          /\ insertedAt[id] >= 0
          /\ computationBacklog[id].Buy \in stored
          /\ computationBacklog[id].Sell \notin stored
          /\ id \notin ResolvedIDs
    /\ ResolvedIDs # {}

\* The backlog worker makes one turn of the second loop of its sweep.
SweepTurns == sweepPc = "retry" /\ sweepI' = sweepI + 1

C14_OmeShutdown ==
    /\ [](~omeDone =>
            /\ \A w \in Workers : workerPc[w] # "returned"
            /\ ~errsClosed)
    /\ omeDone ~> (\A w \in Workers : workerPc[w] = "returned")
    /\ omeDone ~> errsClosed

\* C15: every call of OnOpenOrder returns, and the fragment of every call is
\* eventually received by every caller of OrderFragments that was subscribed
\* when the call was made, unless the done channel of that caller is closed.
C15_InboundFragmentFanout ==
    \A k \in OpenOrders :
        /\ openOrderPc[k] = "sending" ~> openOrderPc[k] = "returned"
        /\ \A s \in Sinks :
              (openOrderPc[k] = "sending" /\ s \in orderFragmentSubs)
                  ~> (k \in ofReceived[s] \/ ofDone[s])

\* The SMPC layer is connected to the epoch e and to nothing else.
ConnectedTo(e) == smpcNetworks = MapSet(NoNetworks, e.Hash, e.Darknodes)

C9_EpochIsolationInv ==
    /\ xiMu <=> changePc # "idle"
    /\ DOMAIN smpcNetworks \subseteq {xi.Hash}
    /\ changePc \in {"assign", "connect"} => smpcNetworks = NoNetworks
    /\ changePc = "unlock" => xi = changeArg /\ ConnectedTo(changeArg)
    /\ (changePc \in {"idle", "disconnect"} /\ returnedHash # 0) =>
          /\ xi = [Hash |-> returnedHash,
                   Darknodes |-> EpochDarknodes(returnedHash)]
          /\ ConnectedTo(xi)

\* A worker reads ome.xi under the read lock.
ReadsEpoch ==
    \/ drainPc = "fetched" /\ drainPc' = "dispatch"
    \/ sweepPc = "idle" /\ sweepPc' = "lock"
    \/ Len(confirmations') < Len(confirmations)

\* C9: OnChangeEpoch holds the write lock from before the disconnect until
\* after the connect; it disconnects the hash of the epoch it leaves before it
\* connects the hash and the darknodes of the new one; whenever no call is
\* between its disconnect and its return, and a call has returned, the SMPC
\* layer is connected to the current epoch and to no other; and a worker that
\* reads the epoch does so while no call holds the lock, so what it sees is
\* an epoch the SMPC layer is connected to.
C9_EpochIsolation ==
    /\ []C9_EpochIsolationInv
    /\ [][ReadsEpoch =>
            /\ ~xiMu
            /\ changePc = "idle"
            /\ returnedHash # 0 => ConnectedTo(xi)
            /\ drainPc' = "dispatch" /\ drainPc = "fetched"
                  => drainXi' = xi.Hash
            /\ sweepPc' = "lock" /\ sweepPc = "idle"
                  => sweepXi' = xi.Hash]_vars

\* Two calls of OnChangeEpoch have returned and the ranker worker has read
\* the second epoch.
C9_Witness ==
    /\ returnedHash = MaxEpochs
    /\ MaxEpochs >= 2
    /\ changePc = "idle"
    /\ ConnectedTo([Hash |-> MaxEpochs, Darknodes |-> EpochDarknodes(MaxEpochs)])
    /\ drainPc = "dispatch"
    /\ drainXi = MaxEpochs

\* The orders in which a Computation may pass through its States.
StateChains ==
    {<<ComputationStateNil, ComputationStateMatched,
       ComputationStateAccepted, ComputationStateSettled>>,
     <<ComputationStateNil, ComputationStateMismatched>>,
     <<ComputationStateNil, ComputationStateMatched,
       ComputationStateRejected>>}

\* s is a run of consecutive States of chain.
IsSegment(s, chain) ==
    \E k \in 0..Len(chain) :
        /\ k + Len(s) <= Len(chain)
        /\ \A i \in 1..Len(s) : s[i] = chain[k + i]

LexLess(a, b) ==
    \E i \in 1..Len(a) :
        /\ i <= Len(b)
        /\ a[i] < b[i]
        /\ \A j \in 1..(i - 1) : a[j] = b[j]

\* The streams of a mock toward addr, and those whose context is live.
StreamsTo(streams, addr) == {i \in DOMAIN streams : streams[i].addr = addr}
LiveStreamsTo(streams, addr) ==
    {i \in StreamsTo(streams, addr) : ~CtxDone(streams[i].ctx)}

\* The holders of node n whose Open has returned and whose reference the
\* recycler has not released yet; those whose context is still live.
Holding(n) == {h \in Holders : hNode[h] = n /\ hpc[h] \in {"held", "cancelled"}}
LiveHolders(n) == {h \in Holders : hNode[h] = n /\ hpc[h] = "held"}

\* The underlying streams node n has toward p, on either transport.
UnderlyingCount(n, p) ==
    Cardinality(LiveStreamsTo(clientStreams[n], p))
        + Cardinality(LiveStreamsTo(serverStreams[n], p))

\* C3 (tiebreak): of two nodes a < b in byte order, a only ever connects to
\* b and b only ever listens for a; while both hold a stream toward each
\* other there is exactly one stream between them, with a at its client
\* end and b at its server end; and every Open made on a Streamer made
\* exactly one call, a Connect or a Listen.
C3_Tiebreak ==
    /\ \A a, b \in streamNodes :
          LexLess(a, b) =>
            /\ StreamsTo(serverStreams[a], b) = {}
            /\ StreamsTo(clientStreams[b], a) = {}
            /\ (Holding(a) # {} /\ Holding(b) # {}) =>
                  /\ Cardinality(LiveStreamsTo(clientStreams[a], b)) = 1
                  /\ Cardinality(LiveStreamsTo(serverStreams[b], a)) = 1
    /\ \A n \in Addrs : clientCounter[n] + serverCounter[n] = innerOpens[n]

\* Both nodes have opened toward each other.
C3_Witness ==
    \E a, b \in streamNodes :
        /\ LexLess(a, b)
        /\ Holding(a) # {} /\ Holding(b) # {}
        /\ innerOpens[a] = 1 /\ innerOpens[b] = 1
        /\ clientCounter[a] = 1 /\ serverCounter[b] = 1

\* The count the recycler keeps for the stream of n toward p.
Refcount(n, p) ==
    IF <<n, p>> \in DOMAIN recStreams THEN recStreams[<<n, p>>].refs ELSE 0

\* C5 (recycler sharing): the recycler has a stream to p exactly when its
\* count for p is positive, the count is the number of holders it has not
\* released, there is one underlying stream while the count is positive
\* and none otherwise, and the inner Streamer is opened only when no
\* holder has the stream: N Opens made while a holder is live share the
\* one inner Open.
C5_RecyclerSharingInv ==
    \A n \in streamNodes :
        LET p == PeerOf(n)
        IN /\ (<<n, p>> \in DOMAIN recStreams) <=> Refcount(n, p) > 0
           /\ Refcount(n, p) = Cardinality(Holding(n))
           /\ UnderlyingCount(n, p) = (IF Refcount(n, p) > 0 THEN 1 ELSE 0)

C5_RecyclerSharing ==
    /\ []C5_RecyclerSharingInv
    /\ [][\A n \in Addrs :
             innerOpens'[n] # innerOpens[n] =>
                /\ innerOpens'[n] = innerOpens[n] + 1
                /\ Holding(n) = {}]_vars

\* Every holder has opened on the same node: one inner Open, one stream.
C5_Witness ==
    \E n \in streamNodes :
        /\ Cardinality(LiveHolders(n)) = MaxHolders
        /\ innerOpens[n] = 1
        /\ UnderlyingCount(n, PeerOf(n)) = 1

\* A stream of a mock of node n.
MockStreamAt(n, i) == i \in DOMAIN clientStreams[n] \/ i \in DOMAIN serverStreams[n]

\* C6 (recycler release): while the context of a holder is live the
\* underlying stream is open; no stream is closed twice; and a stream whose
\* holders' contexts have all ended is eventually closed and removed,
\* unless a new holder opens in the meantime.
C6_RecyclerReleaseInv ==
    /\ \A n \in streamNodes :
          LiveHolders(n) # {} => UnderlyingCount(n, PeerOf(n)) = 1
    /\ \A k \in DOMAIN ctxCloses : ctxCloses[k] <= 1

C6_RecyclerRelease ==
    /\ []C6_RecyclerReleaseInv
    /\ \A n \in Addrs : \A i \in StreamIndexes :
          (MockStreamAt(n, i) /\ LiveHolders(n) = {})
             ~> (~MockStreamAt(n, i) \/ LiveHolders(n) # {})

\* All but one of the holders of a node have been cancelled and released,
\* and the stream is still there for the last one.
C6_Witness ==
    \E n \in streamNodes :
        /\ Cardinality({h \in Holders : hNode[h] = n /\ hpc[h] = "released"})
              = MaxHolders - 1
        /\ Cardinality(LiveHolders(n)) = 1
        /\ UnderlyingCount(n, PeerOf(n)) = 1

(***************************************************************************)
(* Properties of the Router                                                *)
(***************************************************************************)
\* The sender channels made for peer p that are open.
OpenSenders(p) == {i \in DOMAIN chans : chans[i].peer = p /\ chans[i].open}

\* C1 (arc uniqueness): whenever router.mu is free, every peer has at most
\* one arc, and its arc (the entries in computeSenders, computeReceivers and
\* computeErrs) is there exactly when computeArcs[p] > 0; a count of zero
\* means no arc, and no count is ever negative.
C1_ArcUniqueness ==
    /\ \A p \in Addrs : computeArcs[p] >= 0
    /\ mu = NoCaller =>
         \A p \in Addrs :
            /\ computeArcs[p] > 0 <=> ArcPresent(p)
            /\ computeArcs[p] = 0 => ArcAbsent(p)
            /\ Cardinality(OpenSenders(p)) <= 1
            /\ ArcPresent(p) => OpenSenders(p) = {computeSenders[p]}

\* Two callers share the one arc of a peer while the mutex is free.
C1_Witness ==
    /\ mu = NoCaller
    /\ \E p \in Addrs : computeArcs[p] = 2 /\ ArcPresent(p)
    /\ \E q \in Addrs : computeArcs[q] = 0 /\ ArcAbsent(q)

\* C2 (teardown only at the last release): a step that closes the sender
\* of peer p or removes p's arc is the decrement, made by the holder of
\* router.mu, that takes computeArcs[p] from one to zero; a release that
\* leaves other callers only decrements and leaves arc and sender as they
\* are.
C2_TeardownOnlyAtLastRelease ==
    [][\A p \in Addrs :
          /\ ( \/ ArcPresent(p) /\ ~ArcPresent(p)'
               \/ OpenSenders(p) \ OpenSenders(p)' # {} )
             => \E c \in Callers :
                   /\ pc[c] = "decr" /\ pc'[c] = "closing"
                   /\ mu = c /\ mu' = NoCaller
                   /\ callAddr[c] = p
                   /\ computeArcs[p] = 1 /\ computeArcs'[p] = 0
                   /\ ArcAbsent(p)' /\ OpenSenders(p)' = {}
          /\ \A c \in Callers :
                (pc[c] = "decr" /\ pc'[c] = "closing" /\ callAddr[c] = p
                    /\ computeArcs[p] > 1)
                => /\ computeArcs'[p] = computeArcs[p] - 1
                   /\ ArcPresent(p)'
                   /\ computeSenders'[p] = computeSenders[p]
                   /\ chans'[computeSenders[p]].open
      ]_vars

\* One caller of a peer has released on its done signal and returned while
\* another still forwards on the arc, which is up with its sender open.
C2_Witness ==
    \E c1, c2 \in Callers :
        /\ c1 # c2 /\ callAddr[c1] = callAddr[c2]
        /\ pc[c1] = "returned" /\ done[c1]
        /\ pc[c2] = "forward"
        /\ computeArcs[callAddr[c2]] = 1
        /\ ArcPresent(callAddr[c2])
        /\ chans[computeSenders[callAddr[c2]]].open

\* The sender channel i is still the local variable of a running setup.
InSetup(i) == \E c \in Callers : sender[c] = i

\* C17: a sink subscribed to a Splitter when the Splitter takes a message
\* receives the message or has it dropped before the Splitter takes the next
\* one, and it is dropped only when this very sink is not ready; the offer to
\* a sink is never held up by the other sinks; a sink receives only a message
\* of a Splitter it was subscribed to when the message was taken.
C17_FanOut ==
    /\ [](\A p \in SplitterIds : \A s \in spPending(p) :
             ENABLED SplitterOffer(p, s))
    /\ [][\A p \in SplitterIds : \A s \in SplitSinks :
            /\ spTaken'[p] # spTaken[p] =>
                   /\ spOffer[p][s] # "pending"
                   /\ s \in spSubs[p] <=> spOffer'[p][s] = "pending"
            /\ (spTaken'[p] = spTaken[p] /\ spOffer'[p][s] # spOffer[p][s]) =>
                   /\ spOffer[p][s] = "pending"
                   /\ spOffer'[p][s] = IF sinkReady[s] THEN "got" ELSE "dropped"]_vars
\* One sink of a Splitter received a message that was dropped for another
\* sink of the same Splitter.
C17_Witness ==
    \E p \in SplitterIds : \E s, t \in SplitSinks :
        /\ spOffer[p][s] = "got"
        /\ spOffer[p][t] = "dropped"

\* C19: a Splitter closes its sinks only when the message it took last has
\* been offered to every sink that was subscribed; it then closes every sink
\* subscribed, and a Subscribe made after that fails with ErrClosed and
\* subscribes nothing.
C19_SplitterClose ==
    /\ [](\A p \in SplitterIds : spClosed[p] => spPending(p) = {})
    /\ [][\A p \in SplitterIds :
            /\ (spClosed'[p] /\ ~spClosed[p]) =>
                   /\ srcClosed[p]
                   /\ spPending(p) = {}
                   /\ \A s \in spSubs[p] : sinkClosed'[s]
            /\ (~spClosed'[p]) =>
                   \A s \in spSubs[p] : sinkClosed'[s] = sinkClosed[s]
            /\ spClosed[p] => spSubs'[p] = spSubs[p] \cap spSubs'[p]]_vars
    /\ [](\A c \in subLog : c.closed => c.err = "ErrClosed")
C19_Witness ==
    \E p \in SplitterIds : \E s \in SplitSinks :
        /\ spClosed[p]
        /\ s \in spSubs[p] /\ sinkClosed[s]
        /\ spOffer[p][s] = "got"
        /\ [closed |-> TRUE, err |-> "ErrClosed"] \in subLog

\* The first message of the Connect call k has no StreamAddress or one whose
\* Address is empty.
Unauthenticated(k) ==
    connPc[k] # "idle" /\ connErr[k] # "recv"
        /\ ~(connMsg[k].StreamAddress /\ connMsg[k].Address # "")

\* C20: a Connect call whose first message has no authentication or an empty
\* address returns an error at once, and its stream is given to no channel
\* and to no Listen call.
C20_StreamAuthenticationAddress ==
    \A k \in Connects :
        Unauthenticated(k) =>
            /\ connPc[k] = "returned"
            /\ connErr[k] \notin {"none", "nil"}
            /\ \A l \in Listens : listenGot[l] # k

\* C23: the OME calls Settler.Settle only with a Computation whose State is
\* Accepted (what it hands on in state Nil goes to the Matcher and what it
\* hands on in state Matched goes to the Confirmer).
C23_SettlerInput ==
    \A id \in ComIDs : \A i \in 1..Len(handed[id]) :
        handed[id][i] \notin {ComputationStateNil, ComputationStateMatched}
            => handed[id][i] = ComputationStateAccepted

\* C24: once the OME has called Settler.Settle with a Computation and the
\* call has returned, the Computation the OME holds is in State Settled.  The
\* OME gives its Computation by value, so what it holds after the call is
\* what it handed on.
C24_SettledState ==
    \A id \in ComIDs : \A i \in 1..Len(handed[id]) :
        handed[id][i] \notin {ComputationStateNil, ComputationStateMatched}
            => handed[id][i] = ComputationStateSettled

RECURSIVE TakenUpTo(_)
TakenUpTo(b) == IF b = 0 THEN 0 ELSE bcTaken[b] + TakenUpTo(b - 1)
AwaitsOffer(l) == \E b \in Broadcasts : l \in bcPending[b]
C22_StreamMutualExclusion ==
    /\ Cardinality({t \in StreamUsers : ssPc[t] = "sending"}) <= 1
    /\ Cardinality({t \in StreamUsers : ssPc[t] = "receiving"}) <= 1
    /\ \A t \in StreamUsers :
          ssPc[t] = "sendLock" =>
              ~\E c, r \in StreamUsers :
                  /\ sendMu = c /\ ssPc[c] = "closeRecvLock"
                  /\ recvMu = r /\ ssPc[r] = "receiving"

\* The first message of the Connect call k claims an address with a signature
\* that does not verify against it.
Forged(k) ==
    connPc[k] # "idle" /\ connErr[k] # "recv"
        /\ connMsg[k].StreamAddress /\ connMsg[k].Address # ""
        /\ ~connMsg[k].Signed

\* C21: a Connect call whose first message carries a signature that does not
\* verify against the address it claims returns an error, and its stream is
\* returned by no Listen call on that address.
C21_StreamSignatureVerification ==
    \A k \in Connects :
        Forged(k) =>
            /\ connPc[k] = "returned"
            /\ connErr[k] \notin {"none", "nil", "ctx"}
            /\ \A l \in Listens :
                  ~(listenGot[l] = k /\ listenAddr[l] = connMsg[k].Address)

\* C18: the sinks subscribed to the Splitter of the order fragments never
\* outnumber maxConnections; a Subscribe made at the cap leaves the set of
\* subscribers as it is and fails with ErrTooManySubscribers, which
\* OrderFragments puts on its errs channel before it closes both channels,
\* whether done is closed or not.
SubscribesAtCap(s) ==
    /\ ofPc[s] = "subscribe"
    /\ ofPc'[s] # "subscribe"
    /\ Cardinality(orderFragmentSubs) >= MaxConnections
C18_SubscriberCap ==
    /\ [](Cardinality(orderFragmentSubs) <= MaxConnections)
    /\ [][\A s \in Sinks :
            SubscribesAtCap(s) =>
                /\ orderFragmentSubs' = orderFragmentSubs
                /\ ofErrs'[s] = "ErrTooManySubscribers"
                /\ ofPc'[s] = "closed"
                /\ ofDone'[s] = ofDone[s]]_vars
C18_Witness ==
    \E s \in Sinks :
        /\ ofErrs[s] = "ErrTooManySubscribers"
        /\ ofPc[s] = "closed"
        /\ ~ofDone[s]
        /\ s \notin orderFragmentSubs
        /\ Cardinality(orderFragmentSubs) = MaxConnections

\* The positions at which a Router goroutine is about to send or receive on a
\* channel or to call the transport: the greeting of setupCompute, the select
\* of the loop and the forwarding select.
AtChannel(c) == pc[c] \in {"greet", "loop", "forward"}

\* C16: no Router goroutine holds router.mu while it is at a channel send or
\* receive or a transport call, the setup of a new arc included.
C16_RouterLockingDiscipline ==
    \A c \in Callers : AtChannel(c) => mu # c

\* C4 (arc setup roles and greeting): the router dials the peer exactly when
\* its own address is strictly below the peer's in byte order; a dialed
\* arc's sender carries the router's MultiAddress as its first message,
\* placed before the arc is installed and so before any caller's
\* computation, and carries it once; a sender of the listening role never
\* carries a greeting.
C4_SetupRolesAndGreeting ==
    \A i \in DOMAIN chans :
        LET ch == chans[i]
        IN /\ ch.role = "dial" <=> LexLess(address, ch.peer)
           /\ ch.role = "listen" <=> ~LexLess(address, ch.peer)
           /\ ch.role = "dial" =>
                /\ ch.first \in {"none", "multiAddress"}
                /\ ch.greetings = (IF ch.first = "none" THEN 0 ELSE 1)
                /\ ~InSetup(i) => ch.first = "multiAddress"
           /\ ch.role = "listen" =>
                /\ ch.greetings = 0
                /\ ch.first \in {"none", "computation"}

\* A dialed arc whose sender carried the greeting first and a listening arc
\* on which a caller's computation is the first message.
C4_Witness ==
    \E i, j \in DOMAIN chans :
        /\ chans[i].role = "dial" /\ ~InSetup(i)
        /\ chans[i].first = "multiAddress"
        /\ \E c \in Callers : callAddr[c] = chans[i].peer /\ pc[c] = "loop"
        /\ chans[j].role = "listen" /\ chans[j].first = "computation"

\* The pairing x comes before the pairing y in the order of the Ranker, by
\* the orders inserted now.
Precedes(x, y) ==
    LET px == rkBuys[x[1]] + rkSells[x[2]]
        py == rkBuys[y[1]] + rkSells[y[2]]
        bx == BuyID(x[1])
        by == BuyID(y[1])
    IN  \/ px < py
        \/ /\ px = py
           /\ \/ BytesCompare(bx, by) < 0
              \/ /\ BytesCompare(bx, by) = 0
                 /\ BytesCompare(SellID(x[2]), SellID(y[2])) < 0

\* C27 (Ranker order): a Computations(buf) call gives out at most len(buf)
\* pairings, each a pair of a buy and a sell order inserted now that was not
\* given out since both were inserted, no pairing twice, in the order of
\* the lowest sum of priorities first with ties broken by the byte order of
\* (BuyID, SellID); every pairing it leaves comes after all it gives out,
\* and it leaves pairings only when the buffer is full.
C27_RankerOrder ==
    [][rkN' # 0 =>
          LET out == rkOut'
              given == {out[i] : i \in DOMAIN out}
              inserted == {x \in RankBuys \X RankSells :
                               rkBuys[x[1]] # 0 /\ rkSells[x[2]] # 0}
          IN  /\ Len(out) <= rkN'
              /\ Cardinality(given) = Len(out)
              /\ given \subseteq inserted \ rkEmitted
              /\ \A i, j \in DOMAIN out : i < j => Precedes(out[i], out[j])
              /\ \A x \in given, y \in (inserted \ rkEmitted) \ given :
                     Precedes(x, y)
              /\ Len(out) < rkN' => (inserted \ rkEmitted) \subseteq given
              /\ rkEmitted' = rkEmitted \cup given
      ]_vars

\* A call gave out two pairings of equal sum of priorities, told apart by
\* their order IDs, and left a pairing; an earlier call gave out others.
C27_Witness ==
    /\ rkN = 2
    /\ Len(rkOut) = 2
    /\ rkBuys[rkOut[1][1]] + rkSells[rkOut[1][2]]
           = rkBuys[rkOut[2][1]] + rkSells[rkOut[2][2]]
    /\ rkPending # {}
    /\ \E x \in rkEmitted : x # rkOut[1] /\ x # rkOut[2]

\* C28 (Computation identity): NewComputation(b, s) has Buy = b, Sell = s,
\* State = Nil, Match = false and the ID Keccak256(b || s): the ID is
\* determined by (b, s), and NewComputation(s, b) has the hash of the
\* concatenation in the other order.
C28_ComputationIdentity ==
    ncArgs # NoArgs =>
        LET b == ncArgs[1]
            s == ncArgs[2]
        IN  /\ ncCom.Buy = b
            /\ ncCom.Sell = s
            /\ ncCom.State = ComputationStateNil
            /\ ncCom.Match = FALSE
            /\ ncCom.ID = Keccak256(<<b[1], b[2], s[1], s[2]>>)
            /\ ncSwap # NoComputation =>
                   /\ ncSwap.Buy = s
                   /\ ncSwap.Sell = b
                   /\ ncSwap.ID = Keccak256(<<s[1], s[2], b[1], b[2]>>)

\* Both Computations of two different orders are made, and their IDs differ.
C28_Witness ==
    /\ ncArgs # NoArgs
    /\ ncArgs[1] # ncArgs[2]
    /\ ncSwap # NoComputation
    /\ ncSwap.ID # ncCom.ID

\* C29 (default logger replacement): once SetDefaultLogger(l) has installed
\* l, l is the DefaultLogger and is started; the call returns and leaves
\* the lock free, and every call of a Log function that is made completes.
C29_DefaultLoggerReplacement ==
    /\ [](\A t \in LogCallers :
             (lgOp[t].fn = "SetDefaultLogger"
                  /\ lgPc[t] \in {"deferred", "returned"}) =>
                 (lgDefault = lgOp[t].logger /\ lgDefault \in lgStarted))
    /\ \A t \in LogCallers :
           (lgPc[t] # "idle") ~> (lgPc[t] = "returned" /\ lgMu # t)

\* The stream of the Connect call k was returned by a Listen call.
Delivered(k) == \E l \in Listens : listenGot[l] = k

\* C30 (stream rendezvous): each stream is returned by at most one Listen
\* call; the channel a pending call uses (a Listen at its receive, a Connect
\* before its send) is the one the service holds for its address, that is,
\* no other call's teardownConn has removed it; and when a Connect has
\* passed verification for the address a Listen waits on, the Listen
\* returns (with a stream, or because its ctx is done), or the stream is
\* delivered, or the Connect ends with its own context done.
C30_StreamRendezvous ==
    /\ [](\A l1, l2 \in Listens :
             (l1 # l2 /\ listenGot[l1] # NoStream) =>
                 listenGot[l1] # listenGot[l2])
    /\ [](/\ \A l \in Listens :
                listenPc[l] = "recv" =>
                    connsStream[listenAddr[l]] = listenChan[l]
          /\ \A k \in Connects :
                connPc[k] = "send" =>
                    connsStream[connAddr[k]] = connChan[k])
    /\ \A k \in Connects, l \in Listens :
           (/\ listenPc[l] = "recv"
            /\ connPc[k] \in {"setup", "send", "wait"}
            /\ connAddr[k] = listenAddr[l]
            /\ ~Delivered(k))
               ~> (\/ listenPc[l] = "returned"
                   \/ Delivered(k)
                   \/ connErr[k] = "ctx")


\* C31: no channel of an arc is closed twice and nothing is sent on a closed
\* channel: no close and no send panics, the sender of an arc is closed once,
\* at teardown, and not before, and the computationReceiver and errs of a
\* Compute call are closed once each when the call has returned, and never
\* more than once.
C31_RouterChannelSafety ==
    /\ cpPanic = "none"
    /\ cpSender = (IF cpPresent \/ \A c \in Computes : cpPc[c] \in {"idle", "lock"}
                   THEN 0 ELSE 1)
    /\ \A c \in Computes, p \in SplitterIds :
          /\ cpCloses[c][p] <= 1
          /\ cpPc[c] = "returned" => cpCloses[c][p] = 1

\* The Compute calls that hold a reference on the arc: computeArcs[addr]++
\* is done and computeArcs[addr]-- is not.
HoldsArc(c) ==
    cpPc[c] \in {"subscribe", "subscribeErrs", "loop", "forward",
                 "unsubscribe", "unsubscribeErrs", "release"}

\* C36: computeArcs[p] is the number of live Compute calls for p, and a live
\* call that is past its two Subscribe calls and in its loop has both its
\* sinks registered in the Splitters of the arc: a call whose subscription
\* was refused keeps no reference and does not go on into the loop.
C36_ArcCountMatchesSubscriptions ==
    /\ cpArcs = Cardinality({c \in Computes : HoldsArc(c)})
    /\ \A c \in Computes :
          cpPc[c] \in {"loop", "forward"} =>
              \A p \in SplitterIds : c \in cpSubs[p]
\* The running sweep has taken the Computation into its buffer.
Selected(com) == \E i \in DOMAIN sweepBuffer : sweepBuffer[i] = com

\* C32: when a sweep finishes, every Computation that was in the backlog
\* when it started is in one and only one of four situations: dropped (not
\* in the backlog, not handed to the Matcher), and then it was expired;
\* handed to the Matcher, and then it was selected, not expired, and both its
\* fragments are stored; back in the backlog after it was selected, as it
\* was; or in the backlog as it was without having been selected, and then
\* the buffer is full.  The buffer never holds more than its size and never
\* an expired Computation.
C32_BacklogSweepLosesNothing ==
    SweepFinished =>
        /\ Len(sweepBuffer) <= BufferSize
        /\ \A i \in DOMAIN sweepBuffer :
              ~Expired(sweepBuffer[i], sweepStart.time)
        /\ \A id \in DOMAIN sweepStart.backlog :
              LET com == sweepStart.backlog[id]
                  back == id \in DOMAIN computationBacklog
                  matcher == id \in ResolvedIDs
              IN  /\ ~(back /\ matcher)
                  /\ (~back /\ ~matcher) => Expired(com, sweepStart.time)
                  /\ matcher => /\ Selected(com)
                                /\ FragmentsStored(com)
                  /\ back => /\ computationBacklog[id] = com
                             /\ Selected(com)
                                  \/ Len(sweepBuffer) = BufferSize

\* A sweep finishes that found three Computations in the backlog: it has
\* dropped one, handed one to the Matcher and put one back.
C32_Witness ==
    /\ SweepFinished
    /\ \E a, b, c \in DOMAIN sweepStart.backlog :
          /\ a \notin DOMAIN computationBacklog /\ a \notin ResolvedIDs
          /\ b \notin DOMAIN computationBacklog /\ b \in ResolvedIDs
          /\ c \in DOMAIN computationBacklog
          /\ Selected(sweepStart.backlog[c])
\* C35: a turn of the second loop of a sweep for a Computation with a
\* fragment missing puts it back in the backlog under its ID with every
\* field as it was when the sweep started, its Timestamp included, and
\* changes nothing else in the backlog.
C35_FailedRetryPreservesEntry ==
    [][(SweepTurns /\ ~FragmentsStored(sweepBuffer[sweepI])) =>
          LET com == sweepBuffer[sweepI]
          IN  /\ com.ID \in DOMAIN sweepStart.backlog
              /\ DOMAIN computationBacklog' =
                     DOMAIN computationBacklog \cup {com.ID}
              /\ computationBacklog'[com.ID] = sweepStart.backlog[com.ID]
              /\ computationBacklog'[com.ID].Timestamp
                     = sweepStart.backlog[com.ID].Timestamp
              /\ \A id \in DOMAIN computationBacklog :
                     computationBacklog'[id] = computationBacklog[id]]_vars

\* A sweep that started after the clock had moved on has put back a
\* Computation it retried, and the entry has the Timestamp it had.
C35_Witness ==
    /\ sweepPc = "retry"
    /\ \E j \in 1..(sweepI - 1) :
          LET com == sweepBuffer[j]
          IN  /\ com.ID \in DOMAIN computationBacklog
              /\ ~FragmentsStored(com)
              /\ computationBacklog[com.ID].Timestamp < sweepStart.time

\* The Settle calls made for the Computation k.
SettleCalls(k) == {i \in DOMAIN stCalls : stCalls[i].com = k}

\* C33: Settle is called at most once for a Computation, with a hash that
\* was the hash of ome.xi between the receive of the Computation and the
\* call; while done is open every error received from the Confirmer is sent
\* on errs or waits at the send; and every Computation that the Confirmer
\* sends on its output channel is passed to Settle, unless done is closed,
\* whatever the Confirmer does with its error channel.
C33_ConfirmerToSettler ==
    /\ [](\A k \in 1..MaxConfirmations : Cardinality(SettleCalls(k)) <= 1)
    /\ [](\A i \in DOMAIN stCalls : stCalls[i].hash \in stCalls[i].seen)
    /\ [](~stDone =>
            stErrsMade = stSent + (IF stPc = "forward" THEN 1 ELSE 0)
                                + (IF stErrOffer THEN 1 ELSE 0))
    /\ \A k \in 1..MaxConfirmations :
          (stMade >= k) ~> (stDone \/ SettleCalls(k) # {})

\* The Ranker calls the spec gives for the first n changes of a changeset.
RECURSIVE ExpectedCalls(_, _)
ExpectedCalls(changeset, n) ==
    IF n = 0 THEN <<>>
    ELSE LET change == changeset[n]
             call == CASE change.OrderStatus = "Open"
                             /\ change.OrderParity = "Buy" -> "InsertBuy"
                       [] change.OrderStatus = "Open"
                             /\ change.OrderParity = "Sell" -> "InsertSell"
                       [] change.OrderStatus = "Canceled" -> "Remove"
                       [] change.OrderStatus = "Confirmed" -> "Remove"
                       [] OTHER -> "none"
         IN  ExpectedCalls(changeset, n - 1) \o
                 (IF call = "none" THEN <<>>
                  ELSE <<[fn |-> call,
                          Priority |-> IF call = "Remove" THEN 0
                                       ELSE change.OrderPriority,
                          Order |-> change.OrderID]>>)

\* C34: after the first n changes of a synced changeset the calls made on
\* the Ranker are, in the order of the changes, InsertBuy with the priority
\* and the order of an Open buy, InsertSell for an Open sell, Remove of the
\* order for a Canceled or Confirmed one and nothing for any other status;
\* when Sync fails no call is made on the Ranker and, when the function has
\* returned with done open, the error is on errs.
C34_OrderbookToRanker ==
    /\ obPc = "range" => obCalls = ExpectedCalls(obChangeset, obI - 1)
    /\ (obPc = "returned" /\ ~obFailed) =>
           obCalls = ExpectedCalls(obChangeset, Len(obChangeset))
    /\ obFailed => obCalls = <<>>
    /\ (obFailed /\ obPc = "returned") => (obDone \/ obErrs = 1)
    /\ ~obFailed => obErrs = 0

\* A pass has returned that applied a changeset with an Open buy and a
\* Confirmed order: an insert and a remove were made.
C34_Witness ==
    /\ obPc = "returned"
    /\ Len(obChangeset) = MaxChanges
    /\ obChangeset[1].OrderStatus = "Open"
    /\ obChangeset[1].OrderParity = "Buy"
    /\ obChangeset[2].OrderStatus = "Confirmed"
    /\ Len(obCalls) = 2
    /\ obCalls[2].fn = "Remove"

\* The Proposals the goroutine has dealt with: those it received, but for the
\* one it is sending the Prepare or the Fault of.
Processed ==
    IF hyPc \in {"prepare", "fault"}
    THEN SubSeq(hyReceived, 1, Len(hyReceived) - 1) ELSE hyReceived

\* The Prepares and the Faults due for a sequence of Proposals, in order.
RECURSIVE PreparesDue(_)
PreparesDue(proposals) ==
    IF proposals = <<>> THEN <<>>
    ELSE LET p == proposals[Len(proposals)]
             before == PreparesDue(SubSeq(proposals, 1, Len(proposals) - 1))
         IN  IF p.valid
             THEN Append(before, [Signature |-> "validator",
                                  Block |-> p.Block, Rank |-> p.Rank,
                                  Height |-> p.Height])
             ELSE before

RECURSIVE FaultsDue(_, _)
FaultsDue(proposals, dropped) ==
    IF proposals = <<>> THEN <<>>
    ELSE LET n == Len(proposals)
             p == proposals[n]
             before == FaultsDue(SubSeq(proposals, 1, n - 1), dropped)
         IN  IF ~p.valid /\ n # dropped
             THEN Append(before, [Rank |-> p.Rank, Height |-> p.Height,
                                  Signature |-> "validator"])
             ELSE before

\* C38, as stated: the Prepares sent are the Prepares of the accepted
\* Proposals among those dealt with, in their order, and the Faults sent are
\* the Faults of the others, in their order: one output for every Proposal
\* received, none for any other.
C38_ProposalProcessingOutput ==
    /\ hySent["prepareCh"] = PreparesDue(Processed)
    /\ hySent["faultCh"] = FaultsDue(Processed, 0)

\* C38, amended: the same, but for the Proposal whose Fault the goroutine
\* gave up because ctx was cancelled before faultCh took it: that Proposal,
\* refused by the validator and the last one received, has no output, and the
\* goroutine goes on to send ctx.Err() and to return.
C38_ProposalProcessingOutputUnlessCancelled ==
    /\ hySent["prepareCh"] = PreparesDue(Processed)
    /\ hySent["faultCh"] = FaultsDue(Processed, hyDropped)
    /\ hyDropped # 0 =>
          /\ hyDropped = Len(hyReceived)
          /\ ~hyReceived[hyDropped].valid
          /\ hyCtxDone
          /\ hyPc \in {"err", "returned"}

\* The goroutine has sent the Prepare of the first Proposal and has given up
\* the Fault of the second on the cancellation of ctx.
C38_Witness ==
    /\ Len(hyReceived) = 2
    /\ Len(hySent["prepareCh"]) = 1
    /\ hySent["prepareCh"][1].Block = hyReceived[1].Block
    /\ hySent["prepareCh"][1].Rank = hyReceived[1].Rank
    /\ hyDropped = 2
    /\ hySent["faultCh"] = <<>>

\* C39: once ctx is cancelled or proposalChIn is closed the goroutine
\* eventually returns and the three channels are closed, whatever their
\* readers do and whatever the threshold; and when it has returned it has
\* sent ctx.Err() once if it returned on the cancellation and nothing on
\* errCh if it returned on the close of proposalChIn.
C39_ProposalProcessingTermination ==
    /\ [](hyPc = "returned" =>
            /\ hyClosed
            /\ IF hySent["errCh"] = <<>> THEN hyInClosed
               ELSE hyCtxDone /\ Len(hySent["errCh"]) = 1)
    /\ (hyCtxDone \/ hyInClosed) ~> (hyPc = "returned" /\ hyClosed)

\* C40: every call of Info, Warn, Error or Usage on the WebSocketPlugin
\* returns, whatever the logHandlers do, and a channel of the plugin holds
\* at most one entry, which is the last event sent on it.
C40_WebSocketLoggingNeverBlocks ==
    /\ [](\A c \in PluginChannels :
            /\ Len(wsCh[c]) <= 1
            /\ wsCh[c] # <<>> => wsCh[c][1] = wsLast[c])
    /\ \A t \in PluginCalls : (wsPc[t] # "idle") ~> (wsPc[t] = "returned")


\* C37: a call of safeStream.Close eventually completes with done closed,
\* even when a Recv on the same stream waits for a message of the peer, and
\* done is closed only by a Close call, which holds both mutexes.
C37_StreamClose ==
    /\ [][ssDone' # ssDone =>
             \E t \in StreamUsers :
                 /\ ssPc[t] = "closing" /\ sendMu = t /\ recvMu = t
                 /\ ~ssDone /\ ssDone']_vars
    /\ \A t \in StreamUsers :
           (ssPc[t] \in {"closeSendLock", "closeRecvLock", "closing"})
               ~> (ssDone /\ ssPc[t] = "idle")

====
